---- MODULE Spec2Model ----
(***************************************************************************)
(* PeopleMarketCounter: the job/stream processing engine.                  *)
(*                                                                         *)
(* One job of app/jobs.py is modelled: the request handler that creates it *)
(* (app/main.py process_video / process_stream), its worker thread         *)
(* (JobManager._process_capture) statement by statement wherever a shared  *)
(* field of JobState is written, the events the worker hands to the event  *)
(* loop (JobManager._schedule_broadcast), the broadcast coroutines and the *)
(* websocket subscribers, the status reader and the MJPEG pull consumer.   *)
(*                                                                         *)
(* Time is counted in ticks of 1/TicksPerSec seconds.  Every call of       *)
(* time.time() returns the clock, which only the action Tick advances.  The *)
(* collaborators consumed through narrow interfaces (append_history, the   *)
(* clock, os.remove) return; the operations of the frame loop (cap.read,   *)
(* detect_people, writer.write) and the creation of the output writer may  *)
(* raise.                                                                  *)
(***************************************************************************)
EXTENDS Integers, Sequences, FiniteSets, TLC

\* ------------------------------------------------------------------ bounds
MaxFrames == 3
MaxCount == 1
MaxFps == 2
MaxSourceFps == 5
MaxSeconds == 1
MaxSubscribers == 2
MaxCallers == 2
MaxPushFrames == 1
MaxElapsed == 2
TicksPerSec == 1
Epoch == 2

\* MaxFrames     frames a source delivers at most
\* MaxCount      people the detector reports at most in one frame
\* MaxFps        requested sampling rates are 0..MaxFps
\* MaxSourceFps  native frame rates reported by a file are 0..MaxSourceFps
\* MaxSeconds    time budgets are 0..MaxSeconds
\* MaxSubscribers websocket clients of the job
\* MaxCallers    threads that call JobManager.create_job
\* MaxPushFrames frames of the source where the websocket clients are modelled
\* MaxElapsed    ticks the clock may advance after Epoch
\* TicksPerSec   resolution of the model clock
\* Epoch         value of the clock when the service starts

\* ------------------------------------------------------- program constants
NumFileBackends == 2
NumLiveBackends == 4
NumWriterCandidates == 5

VARIABLES
    loop, jobs,
    status, current_count, max_count, frames, error, source_type,
    output_path, output_media_type, output_filename,
    last_frame, last_frame_id,
    source, fps, max_seconds, is_file,
    clock, tmp_exists, source_fps, has_size, source_len, history,
    pc, cap, writer, writer_open, cand, start_time, last_emit, now,
    frame_index, frame_skip, do_detect, last_count, last_boxes, annotated,
    frame_bytes, exc, success,
    emitted, tasks,
    websockets, ws_pc, received,
    resp, video_resp,
    mj_pc, last_id, parts,
    calls, got,
    oc

\* loop, jobs                JobManager.loop is set; keys of JobManager.jobs
\* status .. last_frame_id   the fields of the job's JobState
\* source .. is_file         the arguments of _process_capture
\* clock                     the wall clock, in ticks
\* tmp_exists                the uploaded temporary input file is on disk
\* source_fps, has_size      CAP_PROP_FPS; frame width > 0 and height > 0
\* source_len                the number of frames the source can deliver
\* history                   number of entries append_history has written
\* pc .. exc                 position and locals of _process_capture
\* emitted                   the payloads handed to _schedule_broadcast, in order
\* tasks                     the broadcast coroutine of each of them
\* websockets                JobManager.websockets[job_id]
\* ws_pc, received           each websocket: the position of its websocket_job
\*                           handler and the messages delivered to its client
\* resp                      the last response of GET /api/job/{job_id}
\* video_resp               the last answer of GET /api/job/{job_id}/video
\* mj_pc, last_id, parts     the MJPEG generator: position, last_id, parts yielded
\* calls                     the threads that call JobManager.create_job: position,
\*                           job_id and the job returned
\* got                       the last call of JobManager.get_job: key and result
\* oc                        a call of JobManager._open_capture: its position,
\*                           arguments, locals, the captures it created and
\*                           has not released, and its result

vars == <<loop, jobs,
          status, current_count, max_count, frames, error, source_type,
          output_path, output_media_type, output_filename,
          last_frame, last_frame_id,
          source, fps, max_seconds, is_file,
          clock, tmp_exists, source_fps, has_size, source_len, history,
          pc, cap, writer, writer_open, cand, start_time, last_emit, now,
          frame_index, frame_skip, do_detect, last_count, last_boxes, annotated,
          frame_bytes, exc, success,
          emitted, tasks,
          websockets, ws_pc, received,
          resp, video_resp,
          mj_pc, last_id, parts,
          calls, got,
          oc>>

\* ---------------------------------------------------------------- values
JobId == 1

NoError == [kind |-> "none", detail |-> "none"]
NoBytes == <<>>
NoFrame == [index |-> 0, boxes |-> <<>>]

Max2(a, b) == IF a >= b THEN a ELSE b

\* A source string, split at "://": a path has one part, a URL has two.
FilePath == <<"/tmp/upload.mp4">>
StreamUrls == {<<"RTSP", "cam/1">>, <<"http", "host/live.m3u8">>}

Lower(s) == IF s = "RTSP" THEN "rtsp" ELSE s

\* source.split("://")[0].lower() if "://" in source else "unknown"
UrlScheme(src) == IF Len(src) > 1 THEN Lower(src[1]) ELSE "unknown"

\* "Failed to open video source. URL scheme: {scheme}. ..."
OpenFailureMessage(src) == [kind |-> "open_failed", detail |-> UrlScheme(src)]

\* str(exc) of an exception raised at a place of the frame loop
ExcMessage(place) == [kind |-> "exception", detail |-> place]

\* mutant of PyRound: ties away from zero
PyRoundHalfUp(n, d) == (2 * n + d) \div (2 * d)

\* Python 3 round(n / d) for n >= 0, d > 0: to nearest, ties to even.
PyRound(n, d) ==
    LET q == n \div d
        r == n % d
    IN  IF 2 * r < d THEN q
        ELSE IF 2 * r > d THEN q + 1
        ELSE IF q % 2 = 0 THEN q ELSE q + 1

\* frame_skip = max(1, int(round(source_fps / fps))) if both > 0, else 1
FrameSkip(sfps, f) ==
    IF sfps > 0 /\ f > 0 THEN Max2(1, PyRound(sfps, f)) ELSE 1

\* mutant of DoDetect: a live frame is analysed only after more than the
\* interval
DoDetectStrict(file, skip, index, f, t, last) ==
    IF file
    THEN skip <= 1 \/ index % skip = 0
    ELSE f = 0 \/ (t - last) * f > TicksPerSec

\* do_detect.  interval = 1/f seconds (0 when f = 0), so (t - last) >= interval
\* is (t - last) * f >= TicksPerSec in ticks.
DoDetect(file, skip, index, f, t, last) ==
    IF file
    THEN skip <= 1 \/ index % skip = 0
    ELSE f = 0 \/ (t - last) * f >= TicksPerSec

\* max(state.max_count, last_count)
NewMax(m, c) == Max2(m, c)

\* mutants of FinalStatus: an error is overwritten; the status is left alone
FinalStatusAlwaysDone(s) == "done"
FinalStatusKeep(s) == s

\* "done" if state.status != "error" else state.status
FinalStatus(s) == IF s # "error" THEN "done" ELSE s

\* the boxes of `count` people, found by the analysis of frame `index`
Boxes(index, count) == [i \in 1..count |-> index]

\* detector.draw_boxes(frame, last_boxes) if last_boxes else frame
DrawBoxes(index, boxes) == [index |-> index, boxes |-> boxes]

\* encode_image_to_jpeg: the bytes of the image, b"" when imencode fails
EncodeImageToJpeg(image, ok) == IF ok THEN <<image>> ELSE NoBytes

\* (container suffix, media type) of writer candidate c
CandidateSuffix(c) == IF c = 4 THEN ".webm" ELSE ".mp4"
CandidateMediaType(c) == IF c = 4 THEN "video/webm" ELSE "video/mp4"

\* the number of open attempts _open_capture makes for a source: every backend
\* candidate in list order, then the attempt with no backend
NumAttempts(file) == (IF file THEN NumFileBackends ELSE NumLiveBackends) + 1

\* ---------------------------------------------------------------- events
\* One record shape for the three events: a field an event does not carry holds
\* 0, NoError or FALSE.  timestamp_ms of the frame event is not modelled.
FramePayload(index, count, maxc) ==
    [type |-> "frame", frame_index |-> index, count |-> count,
     max_count |-> maxc, frames |-> 0, message |-> NoError,
     done |-> FALSE, video_url |-> FALSE]

DonePayload(maxc, n, url) ==
    [type |-> "done", frame_index |-> 0, count |-> 0,
     max_count |-> maxc, frames |-> n, message |-> NoError,
     done |-> TRUE, video_url |-> url]

ErrorPayload(msg) ==
    [type |-> "error", frame_index |-> 0, count |-> 0,
     max_count |-> 0, frames |-> 0, message |-> msg,
     done |-> TRUE, video_url |-> FALSE]

\* a broadcast coroutine handed to the loop: not started, no sockets listed
NewTask == [started |-> FALSE, todo |-> <<>>]

\* _schedule_broadcast: the coroutine broadcast(job_id, payload) is handed to
\* the loop; nothing is scheduled while no loop is set
ScheduleBroadcast(payload) ==
    IF ~loop
    THEN UNCHANGED <<emitted, tasks>>
    ELSE /\ emitted' = Append(emitted, payload)
         /\ tasks' = Append(tasks, NewTask)

\* ------------------------------------------------------------------ Init
Subscribers == 1..MaxSubscribers

\* no request for the job status was answered yet
NoResponse ==
    [code |-> 0, status |-> "none", current_count |-> 0, max_count |-> 0,
     frames |-> 0, error |-> NoError, video_url |-> FALSE]

\* no request for the output video was answered yet
NoVideoResponse ==
    [code |-> 0, detail |-> "none", path |-> 0, media_type |-> "none",
     filename |-> "none"]

\* the threads that call create_job, and the values uuid4 can return: one more
\* than there are calls
Callers == 1..MaxCallers
JobIds == 1..(MaxCallers + 1)

\* no job: the None of get_job, the job_id of a call that has none yet
NoJob == 0

NoCall == [pc |-> "idle", job_id |-> NoJob, ret |-> NoJob]

\* _open_capture was not called
NoOpenCapture ==
    [pc |-> "idle", is_file |-> FALSE, defined |-> {}, backends |-> <<>>,
     i |-> 0, cap |-> "none", tried |-> <<>>, unreleased |-> {}, ret |-> "unset"]

Init ==
    /\ loop = FALSE
    /\ jobs = {}
    /\ status = "idle"
    /\ current_count = 0
    /\ max_count = 0
    /\ frames = 0
    /\ error = NoError
    /\ source_type = "none"
    /\ output_path = 0
    /\ output_media_type = "none"
    /\ output_filename = "none"
    /\ last_frame = NoBytes
    /\ last_frame_id = 0
    /\ source = FilePath
    /\ fps = 0
    /\ max_seconds = 0
    /\ is_file = FALSE
    /\ clock = Epoch
    /\ tmp_exists = FALSE
    /\ source_fps = 0
    /\ has_size = FALSE
    /\ source_len = 0
    /\ history = 0
    /\ pc = "idle"
    /\ cap = "none"
    /\ writer = 0
    /\ writer_open = FALSE
    /\ cand = 0
    /\ start_time = 0
    /\ last_emit = 0
    /\ now = 0
    /\ frame_index = 0
    /\ frame_skip = 0
    /\ do_detect = FALSE
    /\ last_count = 0
    /\ last_boxes = <<>>
    /\ annotated = NoFrame
    /\ frame_bytes = NoBytes
    /\ exc = NoError
    /\ success = "unset"
    /\ emitted = <<>>
    /\ tasks = <<>>
    /\ websockets = {}
    /\ ws_pc = [w \in Subscribers |-> "new"]
    /\ received = [w \in Subscribers |-> <<>>]
    /\ resp = NoResponse
    /\ video_resp = NoVideoResponse
    /\ mj_pc = "new"
    /\ last_id = 0
    /\ parts = <<>>
    /\ calls = [c \in Callers |-> NoCall]
    /\ got = [key |-> NoJob, job |-> NoJob]
    /\ oc = NoOpenCapture

\* ------------------------------------------------------ request handlers
startup_event ==
    /\ ~loop
    /\ loop' = TRUE
    /\ UNCHANGED <<jobs, status, current_count, max_count, frames, error,
                   source_type, output_path, output_media_type, output_filename,
                   last_frame, last_frame_id, source, fps, max_seconds, is_file,
                   clock, tmp_exists, source_fps, has_size, source_len, history,
                   pc, cap, writer, writer_open, cand, start_time, last_emit,
                   now, frame_index, frame_skip, do_detect, last_count,
                   last_boxes, annotated, frame_bytes, exc, success, emitted,
                   tasks, websockets, ws_pc, received, resp, video_resp, mj_pc,
                   last_id, parts, calls, got, oc>>

\* JobManager.create_job: JobState(job_id, status="processing")
CreateJob ==
    /\ status' = "processing"
    /\ jobs' = jobs \cup {JobId}
    /\ websockets' = {}

\* ------------------------------------------------------------- requests
\* An upload request: the sampling rate and the time budget asked for, and of
\* the uploaded file the native frame rate and the frame size it reports and
\* the number of frames it can deliver.
AllVideoRequests ==
    [fps : 0..MaxFps, max_seconds : 0..MaxSeconds,
     source_fps : 0..MaxSourceFps, has_size : BOOLEAN, length : 0..MaxFrames]

\* A stream request: the URL, the sampling rate and the time budget, and the
\* number of frames the stream can deliver.
AllStreamRequests ==
    [url : StreamUrls, fps : 0..MaxFps, max_seconds : 0..MaxSeconds,
     length : 0..MaxFrames]

\* the requests of the specification Spec
VideoRequests ==
    {req \in AllVideoRequests :
        /\ req.fps = MaxFps
        /\ req.source_fps \in {0, MaxSourceFps}
        /\ req.length = MaxFrames}

StreamRequests ==
    {req \in AllStreamRequests : req.fps \in {0, MaxFps} /\ req.length = MaxFrames}

\* the upload is saved to a temporary file, the job is created and described,
\* and the worker thread is started on the file
SubmitVideo(req) ==
    /\ loop
    /\ JobId \notin jobs
    /\ tmp_exists' = TRUE
    /\ CreateJob
    /\ source_type' = "video"
    /\ source' = FilePath
    /\ is_file' = TRUE
    /\ fps' = req.fps
    /\ max_seconds' = req.max_seconds
    /\ source_fps' = req.source_fps
    /\ has_size' = req.has_size
    /\ source_len' = req.length
    /\ pc' = "start"
    /\ UNCHANGED <<loop, current_count, max_count, frames, error, output_path,
                   output_media_type, output_filename, last_frame,
                   last_frame_id, clock, history, cap, writer, writer_open,
                   cand, start_time, last_emit, now, frame_index, frame_skip,
                   do_detect, last_count, last_boxes, annotated, frame_bytes,
                   exc, success, emitted, tasks, ws_pc, received, resp,
                   video_resp, mj_pc, last_id, parts, calls, got, oc>>

\* the job is created and the worker thread is started on the stream URL
SubmitStream(req) ==
    /\ loop
    /\ JobId \notin jobs
    /\ CreateJob
    /\ source' = req.url
    /\ source_len' = req.length
    /\ is_file' = FALSE
    /\ fps' = req.fps
    /\ max_seconds' = req.max_seconds
    /\ pc' = "start"
    /\ UNCHANGED <<loop, current_count, max_count, frames, error, source_type,
                   output_path, output_media_type, output_filename, last_frame,
                   last_frame_id, clock, tmp_exists, source_fps, has_size,
                   history, cap, writer, writer_open, cand, start_time,
                   last_emit, now, frame_index, frame_skip, do_detect,
                   last_count, last_boxes, annotated, frame_bytes, exc, success,
                   emitted, tasks, ws_pc, received, resp, video_resp, mj_pc,
                   last_id, parts, calls, got, oc>>

process_video == \E req \in VideoRequests : SubmitVideo(req)

process_stream == \E req \in StreamRequests : SubmitStream(req)

\* ------------------------------------------------------------ environment
\* time passes while the worker runs
Tick ==
    /\ pc \notin {"idle", "returned", "crashed"}
    /\ clock < Epoch + MaxElapsed
    /\ clock' = clock + 1
    /\ UNCHANGED <<loop, jobs, status, current_count, max_count, frames, error,
                   source_type, output_path, output_media_type, output_filename,
                   last_frame, last_frame_id, source, fps, max_seconds, is_file,
                   tmp_exists, source_fps, has_size, source_len, history, pc,
                   cap, writer, writer_open, cand, start_time, last_emit, now,
                   frame_index, frame_skip, do_detect, last_count, last_boxes,
                   annotated, frame_bytes, exc, success, emitted, tasks,
                   websockets, ws_pc, received, resp, video_resp, mj_pc,
                   last_id, parts, calls, got, oc>>

\* ------------------------------------------ worker: _process_capture
\* state = self.jobs.get(job_id); cap = self._open_capture(source, is_file):
\* the handle of the first attempt that opens, or None when none does
OpenCapture ==
    /\ pc = "start"
    /\ JobId \in jobs
    /\ \E opened \in 0..NumAttempts(is_file) :
          IF opened > 0
          THEN /\ cap' = "open"
               /\ pc' = "setup"
          ELSE /\ cap' = "none"
               /\ pc' = "open_fail_status"
    /\ UNCHANGED <<loop, jobs, status, current_count, max_count, frames, error,
                   source_type, output_path, output_media_type, output_filename,
                   last_frame, last_frame_id, source, fps, max_seconds, is_file,
                   clock, tmp_exists, source_fps, has_size, source_len, history,
                   writer, writer_open, cand, start_time, last_emit, now,
                   frame_index, frame_skip, do_detect, last_count, last_boxes,
                   annotated, frame_bytes, exc, success, emitted, tasks,
                   websockets, ws_pc, received, resp, video_resp, mj_pc,
                   last_id, parts, calls, got, oc>>

\* state.status = "error"
OpenFailStatus ==
    /\ pc = "open_fail_status"
    /\ status' = "error"
    /\ pc' = "open_fail_error"
    /\ UNCHANGED <<loop, jobs, current_count, max_count, frames, error,
                   source_type, output_path, output_media_type, output_filename,
                   last_frame, last_frame_id, source, fps, max_seconds, is_file,
                   clock, tmp_exists, source_fps, has_size, source_len, history,
                   cap, writer, writer_open, cand, start_time, last_emit, now,
                   frame_index, frame_skip, do_detect, last_count, last_boxes,
                   annotated, frame_bytes, exc, success, emitted, tasks,
                   websockets, ws_pc, received, resp, video_resp, mj_pc,
                   last_id, parts, calls, got, oc>>

\* state.error = "Failed to open video source. URL scheme: ..."
OpenFailError ==
    /\ pc = "open_fail_error"
    /\ error' = OpenFailureMessage(source)
    /\ pc' = "open_fail_emit"
    /\ UNCHANGED <<loop, jobs, status, current_count, max_count, frames,
                   source_type, output_path, output_media_type, output_filename,
                   last_frame, last_frame_id, source, fps, max_seconds, is_file,
                   clock, tmp_exists, source_fps, has_size, source_len, history,
                   cap, writer, writer_open, cand, start_time, last_emit, now,
                   frame_index, frame_skip, do_detect, last_count, last_boxes,
                   annotated, frame_bytes, exc, success, emitted, tasks,
                   websockets, ws_pc, received, resp, video_resp, mj_pc,
                   last_id, parts, calls, got, oc>>

\* mutant of OpenFailEmit: the return is missing
OpenFailEmitNoReturn ==
    /\ pc = "open_fail_emit"
    /\ ScheduleBroadcast(ErrorPayload(error))
    /\ pc' = "finalize"
    /\ UNCHANGED <<loop, jobs, status, current_count, max_count, frames, error,
                   source_type, output_path, output_media_type, output_filename,
                   last_frame, last_frame_id, source, fps, max_seconds, is_file,
                   clock, tmp_exists, source_fps, has_size, source_len, history,
                   cap, writer, writer_open, cand, start_time, last_emit, now,
                   frame_index, frame_skip, do_detect, last_count, last_boxes,
                   annotated, frame_bytes, exc, success, websockets, ws_pc,
                   received, resp, video_resp, mj_pc, last_id, parts, calls,
                   got, oc>>

\* the error event is scheduled and the worker returns
OpenFailEmit ==
    /\ pc = "open_fail_emit"
    /\ ScheduleBroadcast(ErrorPayload(error))
    /\ pc' = "returned"
    /\ UNCHANGED <<loop, jobs, status, current_count, max_count, frames, error,
                   source_type, output_path, output_media_type, output_filename,
                   last_frame, last_frame_id, source, fps, max_seconds, is_file,
                   clock, tmp_exists, source_fps, has_size, source_len, history,
                   cap, writer, writer_open, cand, start_time, last_emit, now,
                   frame_index, frame_skip, do_detect, last_count, last_boxes,
                   annotated, frame_bytes, exc, success, websockets, ws_pc,
                   received, resp, video_resp, mj_pc, last_id, parts, calls,
                   got, oc>>

\* mutant of Setup: the writer is negotiated for every source
SetupAlwaysNegotiates ==
    /\ pc = "setup"
    /\ start_time' = clock
    /\ last_emit' = 0
    /\ frame_index' = 0
    /\ writer' = 0
    /\ last_boxes' = <<>>
    /\ last_count' = 0
    /\ frame_skip' = IF is_file THEN FrameSkip(source_fps, fps) ELSE 0
    /\ cand' = 1
    /\ pc' = "negotiate"
    /\ UNCHANGED <<loop, jobs, status, current_count, max_count, frames, error,
                   source_type, output_path, output_media_type, output_filename,
                   last_frame, last_frame_id, source, fps, max_seconds, is_file,
                   clock, tmp_exists, source_fps, has_size, source_len, history,
                   cap, writer_open, now, do_detect, annotated, frame_bytes,
                   exc, success, emitted, tasks, websockets, ws_pc, received,
                   resp, video_resp, mj_pc, last_id, parts, calls, got, oc>>

\* start_time = time.time() and the locals; for a file the frame_skip
Setup ==
    /\ pc = "setup"
    /\ start_time' = clock
    /\ last_emit' = 0
    /\ frame_index' = 0
    /\ writer' = 0
    /\ last_boxes' = <<>>
    /\ last_count' = 0
    /\ frame_skip' = IF is_file THEN FrameSkip(source_fps, fps) ELSE 0
    /\ cand' = 1
    /\ pc' = IF is_file /\ has_size THEN "negotiate" ELSE "loop"
    /\ UNCHANGED <<loop, jobs, status, current_count, max_count, frames, error,
                   source_type, output_path, output_media_type, output_filename,
                   last_frame, last_frame_id, source, fps, max_seconds, is_file,
                   clock, tmp_exists, source_fps, has_size, source_len, history,
                   cap, writer_open, now, do_detect, annotated, frame_bytes,
                   exc, success, emitted, tasks, websockets, ws_pc, received,
                   resp, video_resp, mj_pc, last_id, parts, calls, got, oc>>

\* one candidate of the writer negotiation: it opens and is kept, or it is
\* released and the next one is tried
Negotiate ==
    /\ pc = "negotiate"
    /\ \E opens \in BOOLEAN :
          IF opens
          THEN /\ writer' = cand
               /\ writer_open' = TRUE
               /\ cand' = cand
               /\ pc' = "record_path"
          ELSE /\ writer' = 0
               /\ writer_open' = FALSE
               /\ cand' = cand + 1
               /\ pc' = IF cand = NumWriterCandidates THEN "loop" ELSE "negotiate"
    /\ UNCHANGED <<loop, jobs, status, current_count, max_count, frames, error,
                   source_type, output_path, output_media_type, output_filename,
                   last_frame, last_frame_id, source, fps, max_seconds, is_file,
                   clock, tmp_exists, source_fps, has_size, source_len, history,
                   cap, start_time, last_emit, now, frame_index, frame_skip,
                   do_detect, last_count, last_boxes, annotated, frame_bytes,
                   exc, success, emitted, tasks, websockets, ws_pc, received,
                   resp, video_resp, mj_pc, last_id, parts, calls, got, oc>>

\* the temporary output file or the writer cannot be created: the exception is
\* raised outside the try statement and ends the thread
NegotiateRaise ==
    /\ pc = "negotiate"
    /\ pc' = "crashed"
    /\ UNCHANGED <<loop, jobs, status, current_count, max_count, frames, error,
                   source_type, output_path, output_media_type, output_filename,
                   last_frame, last_frame_id, source, fps, max_seconds, is_file,
                   clock, tmp_exists, source_fps, has_size, source_len, history,
                   cap, writer, writer_open, cand, start_time, last_emit, now,
                   frame_index, frame_skip, do_detect, last_count, last_boxes,
                   annotated, frame_bytes, exc, success, emitted, tasks,
                   websockets, ws_pc, received, resp, video_resp, mj_pc,
                   last_id, parts, calls, got, oc>>

\* state.output_path = output_path
RecordPath ==
    /\ pc = "record_path"
    /\ output_path' = writer
    /\ pc' = "record_media"
    /\ UNCHANGED <<loop, jobs, status, current_count, max_count, frames, error,
                   source_type, output_media_type, output_filename, last_frame,
                   last_frame_id, source, fps, max_seconds, is_file, clock,
                   tmp_exists, source_fps, has_size, source_len, history, cap,
                   writer, writer_open, cand, start_time, last_emit, now,
                   frame_index, frame_skip, do_detect, last_count, last_boxes,
                   annotated, frame_bytes, exc, success, emitted, tasks,
                   websockets, ws_pc, received, resp, video_resp, mj_pc,
                   last_id, parts, calls, got, oc>>

\* state.output_media_type = media_type
RecordMedia ==
    /\ pc = "record_media"
    /\ output_media_type' = CandidateMediaType(writer)
    /\ pc' = "record_name"
    /\ UNCHANGED <<loop, jobs, status, current_count, max_count, frames, error,
                   source_type, output_path, output_filename, last_frame,
                   last_frame_id, source, fps, max_seconds, is_file, clock,
                   tmp_exists, source_fps, has_size, source_len, history, cap,
                   writer, writer_open, cand, start_time, last_emit, now,
                   frame_index, frame_skip, do_detect, last_count, last_boxes,
                   annotated, frame_bytes, exc, success, emitted, tasks,
                   websockets, ws_pc, received, resp, video_resp, mj_pc,
                   last_id, parts, calls, got, oc>>

\* state.output_filename = f"{job_id}{suffix}"
RecordName ==
    /\ pc = "record_name"
    /\ output_filename' = CandidateSuffix(writer)
    /\ pc' = "loop"
    /\ UNCHANGED <<loop, jobs, status, current_count, max_count, frames, error,
                   source_type, output_path, output_media_type, last_frame,
                   last_frame_id, source, fps, max_seconds, is_file, clock,
                   tmp_exists, source_fps, has_size, source_len, history, cap,
                   writer, writer_open, cand, start_time, last_emit, now,
                   frame_index, frame_skip, do_detect, last_count, last_boxes,
                   annotated, frame_bytes, exc, success, emitted, tasks,
                   websockets, ws_pc, received, resp, video_resp, mj_pc,
                   last_id, parts, calls, got, oc>>

\* mutant of BudgetExceeded: a budget of 0 is a budget
BudgetExceededAlways(t) == (t - start_time) > max_seconds * TicksPerSec

\* max_seconds and (time.time() - start_time) > max_seconds
BudgetExceeded(t) ==
    max_seconds # 0 /\ (t - start_time) > max_seconds * TicksPerSec

\* top of the loop: the budget check
LoopTop ==
    /\ pc = "loop"
    /\ pc' = IF BudgetExceeded(clock) THEN "finally" ELSE "read"
    /\ UNCHANGED <<loop, jobs, status, current_count, max_count, frames, error,
                   source_type, output_path, output_media_type, output_filename,
                   last_frame, last_frame_id, source, fps, max_seconds, is_file,
                   clock, tmp_exists, source_fps, has_size, source_len, history,
                   cap, writer, writer_open, cand, start_time, last_emit, now,
                   frame_index, frame_skip, do_detect, last_count, last_boxes,
                   annotated, frame_bytes, exc, success, emitted, tasks,
                   websockets, ws_pc, received, resp, video_resp, mj_pc,
                   last_id, parts, calls, got, oc>>

\* cap.read() delivers a frame; now, frame_index and state.frames
ReadFrame ==
    /\ pc = "read"
    /\ frame_index < source_len
    /\ now' = clock
    /\ success' = "true"
    /\ frame_index' = frame_index + 1
    /\ frames' = frame_index + 1
    /\ pc' = "decide"
    /\ UNCHANGED <<loop, jobs, status, current_count, max_count, error,
                   source_type, output_path, output_media_type, output_filename,
                   last_frame, last_frame_id, source, fps, max_seconds, is_file,
                   clock, tmp_exists, source_fps, has_size, source_len, history,
                   cap, writer, writer_open, cand, start_time, last_emit,
                   frame_skip, do_detect, last_count, last_boxes, annotated,
                   frame_bytes, exc, emitted, tasks, websockets, ws_pc,
                   received, resp, video_resp, mj_pc, last_id, parts, calls,
                   got, oc>>

\* cap.read() delivers no frame
ReadEnd ==
    /\ pc = "read"
    /\ success' = "false"
    /\ pc' = "finally"
    /\ UNCHANGED <<loop, jobs, status, current_count, max_count, frames, error,
                   source_type, output_path, output_media_type, output_filename,
                   last_frame, last_frame_id, source, fps, max_seconds, is_file,
                   clock, tmp_exists, source_fps, has_size, source_len, history,
                   cap, writer, writer_open, cand, start_time, last_emit, now,
                   frame_index, frame_skip, do_detect, last_count, last_boxes,
                   annotated, frame_bytes, exc, emitted, tasks, websockets,
                   ws_pc, received, resp, video_resp, mj_pc, last_id, parts,
                   calls, got, oc>>

\* cap.read() raises
ReadRaise ==
    /\ pc = "read"
    /\ exc' = ExcMessage("read")
    /\ pc' = "except_status"
    /\ UNCHANGED <<loop, jobs, status, current_count, max_count, frames, error,
                   source_type, output_path, output_media_type, output_filename,
                   last_frame, last_frame_id, source, fps, max_seconds, is_file,
                   clock, tmp_exists, source_fps, has_size, source_len, history,
                   cap, writer, writer_open, cand, start_time, last_emit, now,
                   frame_index, frame_skip, do_detect, last_count, last_boxes,
                   annotated, frame_bytes, success, emitted, tasks, websockets,
                   ws_pc, received, resp, video_resp, mj_pc, last_id, parts,
                   calls, got, oc>>

\* do_detect is decided; if set, last_emit = now and the frame is analysed
Decide ==
    /\ pc = "decide"
    /\ do_detect' = DoDetect(is_file, frame_skip, frame_index, fps, now, last_emit)
    /\ IF do_detect'
       THEN /\ last_emit' = now
            /\ \E c \in 0..MaxCount :
                  /\ last_count' = c
                  /\ last_boxes' = Boxes(frame_index, c)
            /\ pc' = "set_current"
       ELSE /\ UNCHANGED <<last_emit, last_count, last_boxes>>
            /\ pc' = "draw"
    /\ UNCHANGED <<loop, jobs, status, current_count, max_count, frames, error,
                   source_type, output_path, output_media_type, output_filename,
                   last_frame, last_frame_id, source, fps, max_seconds, is_file,
                   clock, tmp_exists, source_fps, has_size, source_len, history,
                   cap, writer, writer_open, cand, start_time, now, frame_index,
                   frame_skip, annotated, frame_bytes, exc, success, emitted,
                   tasks, websockets, ws_pc, received, resp, video_resp, mj_pc,
                   last_id, parts, calls, got, oc>>

\* detector.detect_people raises
DetectRaise ==
    /\ pc = "decide"
    /\ DoDetect(is_file, frame_skip, frame_index, fps, now, last_emit)
    /\ do_detect' = TRUE
    /\ last_emit' = now
    /\ exc' = ExcMessage("detect")
    /\ pc' = "except_status"
    /\ UNCHANGED <<loop, jobs, status, current_count, max_count, frames, error,
                   source_type, output_path, output_media_type, output_filename,
                   last_frame, last_frame_id, source, fps, max_seconds, is_file,
                   clock, tmp_exists, source_fps, has_size, source_len, history,
                   cap, writer, writer_open, cand, start_time, now, frame_index,
                   frame_skip, last_count, last_boxes, annotated, frame_bytes,
                   success, emitted, tasks, websockets, ws_pc, received, resp,
                   video_resp, mj_pc, last_id, parts, calls, got, oc>>

\* state.current_count = last_count
SetCurrent ==
    /\ pc = "set_current"
    /\ current_count' = last_count
    /\ pc' = "set_max"
    /\ UNCHANGED <<loop, jobs, status, max_count, frames, error, source_type,
                   output_path, output_media_type, output_filename, last_frame,
                   last_frame_id, source, fps, max_seconds, is_file, clock,
                   tmp_exists, source_fps, has_size, source_len, history, cap,
                   writer, writer_open, cand, start_time, last_emit, now,
                   frame_index, frame_skip, do_detect, last_count, last_boxes,
                   annotated, frame_bytes, exc, success, emitted, tasks,
                   websockets, ws_pc, received, resp, video_resp, mj_pc,
                   last_id, parts, calls, got, oc>>

\* state.max_count = max(state.max_count, last_count)
SetMax ==
    /\ pc = "set_max"
    /\ max_count' = NewMax(max_count, last_count)
    /\ pc' = "draw"
    /\ UNCHANGED <<loop, jobs, status, current_count, frames, error,
                   source_type, output_path, output_media_type, output_filename,
                   last_frame, last_frame_id, source, fps, max_seconds, is_file,
                   clock, tmp_exists, source_fps, has_size, source_len, history,
                   cap, writer, writer_open, cand, start_time, last_emit, now,
                   frame_index, frame_skip, do_detect, last_count, last_boxes,
                   annotated, frame_bytes, exc, success, emitted, tasks,
                   websockets, ws_pc, received, resp, video_resp, mj_pc,
                   last_id, parts, calls, got, oc>>

\* the frame is annotated with last_boxes, written to the writer if there is
\* one, and encoded
Draw ==
    /\ pc = "draw"
    /\ annotated' = DrawBoxes(frame_index, last_boxes)
    /\ \E ok \in BOOLEAN :
          /\ frame_bytes' = EncodeImageToJpeg(annotated', ok)
          /\ pc' = IF frame_bytes' # NoBytes THEN "snap_frame" ELSE "emit"
    /\ UNCHANGED <<loop, jobs, status, current_count, max_count, frames, error,
                   source_type, output_path, output_media_type, output_filename,
                   last_frame, last_frame_id, source, fps, max_seconds, is_file,
                   clock, tmp_exists, source_fps, has_size, source_len, history,
                   cap, writer, writer_open, cand, start_time, last_emit, now,
                   frame_index, frame_skip, do_detect, last_count, last_boxes,
                   exc, success, emitted, tasks, websockets, ws_pc, received,
                   resp, video_resp, mj_pc, last_id, parts, calls, got, oc>>

\* writer.write(annotated) raises
WriteRaise ==
    /\ pc = "draw"
    /\ writer # 0
    /\ annotated' = DrawBoxes(frame_index, last_boxes)
    /\ exc' = ExcMessage("write")
    /\ pc' = "except_status"
    /\ UNCHANGED <<loop, jobs, status, current_count, max_count, frames, error,
                   source_type, output_path, output_media_type, output_filename,
                   last_frame, last_frame_id, source, fps, max_seconds, is_file,
                   clock, tmp_exists, source_fps, has_size, source_len, history,
                   cap, writer, writer_open, cand, start_time, last_emit, now,
                   frame_index, frame_skip, do_detect, last_count, last_boxes,
                   frame_bytes, success, emitted, tasks, websockets, ws_pc,
                   received, resp, video_resp, mj_pc, last_id, parts, calls,
                   got, oc>>

\* state.last_frame = frame_bytes
SnapFrame ==
    /\ pc = "snap_frame"
    /\ last_frame' = frame_bytes
    /\ pc' = "snap_id"
    /\ UNCHANGED <<loop, jobs, status, current_count, max_count, frames, error,
                   source_type, output_path, output_media_type, output_filename,
                   last_frame_id, source, fps, max_seconds, is_file, clock,
                   tmp_exists, source_fps, has_size, source_len, history, cap,
                   writer, writer_open, cand, start_time, last_emit, now,
                   frame_index, frame_skip, do_detect, last_count, last_boxes,
                   annotated, frame_bytes, exc, success, emitted, tasks,
                   websockets, ws_pc, received, resp, video_resp, mj_pc,
                   last_id, parts, calls, got, oc>>

\* mutant of SnapId: the sequence number counts analysed frames only
SnapIdAnalysedOnly ==
    /\ pc = "snap_id"
    /\ last_frame_id' = IF do_detect THEN last_frame_id + 1 ELSE last_frame_id
    /\ pc' = "emit"
    /\ UNCHANGED <<loop, jobs, status, current_count, max_count, frames, error,
                   source_type, output_path, output_media_type, output_filename,
                   last_frame, source, fps, max_seconds, is_file, clock,
                   tmp_exists, source_fps, has_size, source_len, history, cap,
                   writer, writer_open, cand, start_time, last_emit, now,
                   frame_index, frame_skip, do_detect, last_count, last_boxes,
                   annotated, frame_bytes, exc, success, emitted, tasks,
                   websockets, ws_pc, received, resp, video_resp, mj_pc,
                   last_id, parts, calls, got, oc>>

\* state.last_frame_id += 1
SnapId ==
    /\ pc = "snap_id"
    /\ last_frame_id' = last_frame_id + 1
    /\ pc' = "emit"
    /\ UNCHANGED <<loop, jobs, status, current_count, max_count, frames, error,
                   source_type, output_path, output_media_type, output_filename,
                   last_frame, source, fps, max_seconds, is_file, clock,
                   tmp_exists, source_fps, has_size, source_len, history, cap,
                   writer, writer_open, cand, start_time, last_emit, now,
                   frame_index, frame_skip, do_detect, last_count, last_boxes,
                   annotated, frame_bytes, exc, success, emitted, tasks,
                   websockets, ws_pc, received, resp, video_resp, mj_pc,
                   last_id, parts, calls, got, oc>>

\* mutant of EmitFrame: every frame is announced
EmitFrameAlways ==
    /\ pc = "emit"
    /\ ScheduleBroadcast(FramePayload(frame_index, last_count, max_count))
    /\ pc' = "pace"
    /\ UNCHANGED <<loop, jobs, status, current_count, max_count, frames, error,
                   source_type, output_path, output_media_type, output_filename,
                   last_frame, last_frame_id, source, fps, max_seconds, is_file,
                   clock, tmp_exists, source_fps, has_size, source_len, history,
                   cap, writer, writer_open, cand, start_time, last_emit, now,
                   frame_index, frame_skip, do_detect, last_count, last_boxes,
                   annotated, frame_bytes, exc, success, websockets, ws_pc,
                   received, resp, video_resp, mj_pc, last_id, parts, calls,
                   got, oc>>

\* if do_detect: the frame event is scheduled
EmitFrame ==
    /\ pc = "emit"
    /\ IF do_detect
       THEN ScheduleBroadcast(FramePayload(frame_index, last_count, max_count))
       ELSE UNCHANGED <<emitted, tasks>>
    /\ pc' = "pace"
    /\ UNCHANGED <<loop, jobs, status, current_count, max_count, frames, error,
                   source_type, output_path, output_media_type, output_filename,
                   last_frame, last_frame_id, source, fps, max_seconds, is_file,
                   clock, tmp_exists, source_fps, has_size, source_len, history,
                   cap, writer, writer_open, cand, start_time, last_emit, now,
                   frame_index, frame_skip, do_detect, last_count, last_boxes,
                   annotated, frame_bytes, exc, success, websockets, ws_pc,
                   received, resp, video_resp, mj_pc, last_id, parts, calls,
                   got, oc>>

\* expected_time = start_time + frame_index * frame_duration, compared in
\* ticks times source_fps (frame_duration = 1 / source_fps seconds)
Expected(t) ==
    t * source_fps >= start_time * source_fps + frame_index * TicksPerSec

\* a file with a known frame duration is paced: the worker sleeps until the
\* expected time of the frame, unless it has passed
Pace ==
    /\ pc = "pace"
    /\ (is_file /\ source_fps > 0) => Expected(clock)
    /\ pc' = "loop"
    /\ UNCHANGED <<loop, jobs, status, current_count, max_count, frames, error,
                   source_type, output_path, output_media_type, output_filename,
                   last_frame, last_frame_id, source, fps, max_seconds, is_file,
                   clock, tmp_exists, source_fps, has_size, source_len, history,
                   cap, writer, writer_open, cand, start_time, last_emit, now,
                   frame_index, frame_skip, do_detect, last_count, last_boxes,
                   annotated, frame_bytes, exc, success, emitted, tasks,
                   websockets, ws_pc, received, resp, video_resp, mj_pc,
                   last_id, parts, calls, got, oc>>

\* except Exception: state.status = "error"
ExceptStatus ==
    /\ pc = "except_status"
    /\ status' = "error"
    /\ pc' = "except_error"
    /\ UNCHANGED <<loop, jobs, current_count, max_count, frames, error,
                   source_type, output_path, output_media_type, output_filename,
                   last_frame, last_frame_id, source, fps, max_seconds, is_file,
                   clock, tmp_exists, source_fps, has_size, source_len, history,
                   cap, writer, writer_open, cand, start_time, last_emit, now,
                   frame_index, frame_skip, do_detect, last_count, last_boxes,
                   annotated, frame_bytes, exc, success, emitted, tasks,
                   websockets, ws_pc, received, resp, video_resp, mj_pc,
                   last_id, parts, calls, got, oc>>

\* mutant of ExceptError: the message of the exception is not recorded
ExceptErrorLost ==
    /\ pc = "except_error"
    /\ error' = error
    /\ pc' = "except_emit"
    /\ UNCHANGED <<loop, jobs, status, current_count, max_count, frames,
                   source_type, output_path, output_media_type, output_filename,
                   last_frame, last_frame_id, source, fps, max_seconds, is_file,
                   clock, tmp_exists, source_fps, has_size, source_len, history,
                   cap, writer, writer_open, cand, start_time, last_emit, now,
                   frame_index, frame_skip, do_detect, last_count, last_boxes,
                   annotated, frame_bytes, exc, success, emitted, tasks,
                   websockets, ws_pc, received, resp, video_resp, mj_pc,
                   last_id, parts, calls, got, oc>>

\* state.error = str(exc)
ExceptError ==
    /\ pc = "except_error"
    /\ error' = exc
    /\ pc' = "except_emit"
    /\ UNCHANGED <<loop, jobs, status, current_count, max_count, frames,
                   source_type, output_path, output_media_type, output_filename,
                   last_frame, last_frame_id, source, fps, max_seconds, is_file,
                   clock, tmp_exists, source_fps, has_size, source_len, history,
                   cap, writer, writer_open, cand, start_time, last_emit, now,
                   frame_index, frame_skip, do_detect, last_count, last_boxes,
                   annotated, frame_bytes, exc, success, emitted, tasks,
                   websockets, ws_pc, received, resp, video_resp, mj_pc,
                   last_id, parts, calls, got, oc>>

\* the error event is scheduled
ExceptEmit ==
    /\ pc = "except_emit"
    /\ ScheduleBroadcast(ErrorPayload(error))
    /\ pc' = "finally"
    /\ UNCHANGED <<loop, jobs, status, current_count, max_count, frames, error,
                   source_type, output_path, output_media_type, output_filename,
                   last_frame, last_frame_id, source, fps, max_seconds, is_file,
                   clock, tmp_exists, source_fps, has_size, source_len, history,
                   cap, writer, writer_open, cand, start_time, last_emit, now,
                   frame_index, frame_skip, do_detect, last_count, last_boxes,
                   annotated, frame_bytes, exc, success, websockets, ws_pc,
                   received, resp, video_resp, mj_pc, last_id, parts, calls,
                   got, oc>>

\* finally: cap.release(); the writer is released; os.remove(source) for a file
Finally ==
    /\ pc = "finally"
    /\ cap' = "released"
    /\ writer_open' = FALSE
    /\ tmp_exists' = IF is_file THEN FALSE ELSE tmp_exists
    /\ pc' = "finalize"
    /\ UNCHANGED <<loop, jobs, status, current_count, max_count, frames, error,
                   source_type, output_path, output_media_type, output_filename,
                   last_frame, last_frame_id, source, fps, max_seconds, is_file,
                   clock, source_fps, has_size, source_len, history, writer,
                   cand, start_time, last_emit, now, frame_index, frame_skip,
                   do_detect, last_count, last_boxes, annotated, frame_bytes,
                   exc, success, emitted, tasks, websockets, ws_pc, received,
                   resp, video_resp, mj_pc, last_id, parts, calls, got, oc>>

\* state.status = "done" if state.status != "error" else state.status
Finalize ==
    /\ pc = "finalize"
    /\ status' = FinalStatus(status)
    /\ pc' = "history"
    /\ UNCHANGED <<loop, jobs, current_count, max_count, frames, error,
                   source_type, output_path, output_media_type, output_filename,
                   last_frame, last_frame_id, source, fps, max_seconds, is_file,
                   clock, tmp_exists, source_fps, has_size, source_len, history,
                   cap, writer, writer_open, cand, start_time, last_emit, now,
                   frame_index, frame_skip, do_detect, last_count, last_boxes,
                   annotated, frame_bytes, exc, success, emitted, tasks,
                   websockets, ws_pc, received, resp, video_resp, mj_pc,
                   last_id, parts, calls, got, oc>>

\* append_history for a completed video file
History ==
    /\ pc = "history"
    /\ history' = IF is_file /\ source_type = "video" /\ status = "done"
                  THEN history + 1 ELSE history
    /\ pc' = "done_emit"
    /\ UNCHANGED <<loop, jobs, status, current_count, max_count, frames, error,
                   source_type, output_path, output_media_type, output_filename,
                   last_frame, last_frame_id, source, fps, max_seconds, is_file,
                   clock, tmp_exists, source_fps, has_size, source_len, cap,
                   writer, writer_open, cand, start_time, last_emit, now,
                   frame_index, frame_skip, do_detect, last_count, last_boxes,
                   annotated, frame_bytes, exc, success, emitted, tasks,
                   websockets, ws_pc, received, resp, video_resp, mj_pc,
                   last_id, parts, calls, got, oc>>

\* the done event is scheduled and the worker returns
DoneEmit ==
    /\ pc = "done_emit"
    /\ ScheduleBroadcast(DonePayload(max_count, frames, output_path # 0))
    /\ pc' = "returned"
    /\ UNCHANGED <<loop, jobs, status, current_count, max_count, frames, error,
                   source_type, output_path, output_media_type, output_filename,
                   last_frame, last_frame_id, source, fps, max_seconds, is_file,
                   clock, tmp_exists, source_fps, has_size, source_len, history,
                   cap, writer, writer_open, cand, start_time, last_emit, now,
                   frame_index, frame_skip, do_detect, last_count, last_boxes,
                   annotated, frame_bytes, exc, success, websockets, ws_pc,
                   received, resp, video_resp, mj_pc, last_id, parts, calls,
                   got, oc>>

\* the steps of a worker whose source is a stream: no writer is negotiated
StreamWorker ==
    \/ OpenCapture \/ OpenFailStatus \/ OpenFailError \/ OpenFailEmit
    \/ Setup
    \/ LoopTop \/ ReadFrame \/ ReadEnd \/ ReadRaise
    \/ Decide \/ DetectRaise \/ SetCurrent \/ SetMax
    \/ Draw \/ SnapFrame \/ SnapId \/ EmitFrame \/ Pace
    \/ ExceptStatus \/ ExceptError \/ ExceptEmit
    \/ Finally \/ Finalize \/ History \/ DoneEmit

\* the steps of a worker that records an output video
WriterSteps ==
    \/ Negotiate \/ NegotiateRaise
    \/ RecordPath \/ RecordMedia \/ RecordName
    \/ WriteRaise

Worker == StreamWorker \/ WriterSteps

\* ---------------------------------------------------- status: GET /api/job
\* the JSON of the job; 404 when the registry does not hold the job
get_job ==
    /\ resp' = IF JobId \in jobs
               THEN [code |-> 200, status |-> status,
                     current_count |-> current_count, max_count |-> max_count,
                     frames |-> frames, error |-> error,
                     video_url |-> output_path # 0]
               ELSE [NoResponse EXCEPT !.code = 404]
    /\ UNCHANGED <<loop, jobs, status, current_count, max_count, frames, error,
                   source_type, output_path, output_media_type, output_filename,
                   last_frame, last_frame_id, source, fps, max_seconds, is_file,
                   clock, tmp_exists, source_fps, has_size, source_len, history,
                   pc, cap, writer, writer_open, cand, start_time, last_emit,
                   now, frame_index, frame_skip, do_detect, last_count,
                   last_boxes, annotated, frame_bytes, exc, success, emitted,
                   tasks, websockets, ws_pc, received, video_resp, mj_pc,
                   last_id, parts, calls, got, oc>>

\* ------------------------------------------ output: GET /api/job/.../video
\* job.output_media_type or "video/mp4"; job.output_filename or "<id>.mp4"
OrDefault(v, d) == IF v = "none" THEN d ELSE v

\* the file response for the output recorded on the job
VideoFile ==
    [code |-> 200, detail |-> "none", path |-> output_path,
     media_type |-> OrDefault(output_media_type, "video/mp4"),
     filename |-> OrDefault(output_filename, ".mp4")]

\* mutant of get_job_video: the status is not looked at
get_job_video_any_status ==
    /\ video_resp' =
          IF JobId \notin jobs
          THEN [NoVideoResponse EXCEPT !.code = 404, !.detail = "Job not found"]
          ELSE IF output_path = 0
          THEN [NoVideoResponse EXCEPT !.code = 404,
                                       !.detail = "Processed video not available"]
          ELSE VideoFile
    /\ UNCHANGED <<loop, jobs, status, current_count, max_count, frames, error,
                   source_type, output_path, output_media_type, output_filename,
                   last_frame, last_frame_id, source, fps, max_seconds, is_file,
                   clock, tmp_exists, source_fps, has_size, source_len, history,
                   pc, cap, writer, writer_open, cand, start_time, last_emit,
                   now, frame_index, frame_skip, do_detect, last_count,
                   last_boxes, annotated, frame_bytes, exc, success, emitted,
                   tasks, websockets, ws_pc, received, resp, mj_pc, last_id,
                   parts, calls, got, oc>>

\* get_job_video: 404 for an unknown job, 404 unless the job is done and has
\* an output path, else the file
get_job_video ==
    /\ video_resp' =
          IF JobId \notin jobs
          THEN [NoVideoResponse EXCEPT !.code = 404, !.detail = "Job not found"]
          ELSE IF status # "done" \/ output_path = 0
          THEN [NoVideoResponse EXCEPT !.code = 404,
                                       !.detail = "Processed video not available"]
          ELSE VideoFile
    /\ UNCHANGED <<loop, jobs, status, current_count, max_count, frames, error,
                   source_type, output_path, output_media_type, output_filename,
                   last_frame, last_frame_id, source, fps, max_seconds, is_file,
                   clock, tmp_exists, source_fps, has_size, source_len, history,
                   pc, cap, writer, writer_open, cand, start_time, last_emit,
                   now, frame_index, frame_skip, do_detect, last_count,
                   last_boxes, annotated, frame_bytes, exc, success, emitted,
                   tasks, websockets, ws_pc, received, resp, mj_pc, last_id,
                   parts, calls, got, oc>>

\* ------------------------------------------------- push: /ws/job/{job_id}
\* the first message of a websocket: the status of the job
StatusMessage ==
    [type |-> "status", status |-> status, current_count |-> current_count,
     max_count |-> max_count, done |-> status = "done"]

JobNotFoundMessage == [type |-> "error", message |-> "Job not found"]

\* the orders in which list(set) may enumerate the set s
Orders(s) ==
    {q \in [1..Cardinality(s) -> s] : \A i, j \in 1..Cardinality(s) : q[i] = q[j] => i = j}

\* websocket_job up to the await in register: the job is looked up; an unknown
\* job is answered with an error message and the socket is closed
WsConnect(w) ==
    /\ ws_pc[w] = "new"
    /\ IF JobId \in jobs
       THEN /\ ws_pc' = [ws_pc EXCEPT ![w] = "accepting"]
            /\ UNCHANGED received
       ELSE /\ ws_pc' = [ws_pc EXCEPT ![w] = "closed"]
            /\ received' = [received EXCEPT ![w] = Append(@, JobNotFoundMessage)]
    /\ UNCHANGED <<loop, jobs, status, current_count, max_count, frames, error,
                   source_type, output_path, output_media_type, output_filename,
                   last_frame, last_frame_id, source, fps, max_seconds, is_file,
                   clock, tmp_exists, source_fps, has_size, source_len, history,
                   pc, cap, writer, writer_open, cand, start_time, last_emit,
                   now, frame_index, frame_skip, do_detect, last_count,
                   last_boxes, annotated, frame_bytes, exc, success, emitted,
                   tasks, websockets, resp, video_resp, mj_pc, last_id, parts,
                   calls, got, oc>>

\* register after accept(): the socket joins the set; then the status message
\* is sent and the handler waits in receive_text()
WsRegister(w) ==
    /\ ws_pc[w] = "accepting"
    /\ websockets' = websockets \cup {w}
    /\ received' = [received EXCEPT ![w] = Append(@, StatusMessage)]
    /\ ws_pc' = [ws_pc EXCEPT ![w] = "open"]
    /\ UNCHANGED <<loop, jobs, status, current_count, max_count, frames, error,
                   source_type, output_path, output_media_type, output_filename,
                   last_frame, last_frame_id, source, fps, max_seconds, is_file,
                   clock, tmp_exists, source_fps, has_size, source_len, history,
                   pc, cap, writer, writer_open, cand, start_time, last_emit,
                   now, frame_index, frame_skip, do_detect, last_count,
                   last_boxes, annotated, frame_bytes, exc, success, emitted,
                   tasks, resp, video_resp, mj_pc, last_id, parts, calls, got,
                   oc>>

\* the client goes away: from now on a send to the socket raises
WsDisconnect(w) ==
    /\ ws_pc[w] = "open"
    /\ ws_pc' = [ws_pc EXCEPT ![w] = "gone"]
    /\ UNCHANGED <<loop, jobs, status, current_count, max_count, frames, error,
                   source_type, output_path, output_media_type, output_filename,
                   last_frame, last_frame_id, source, fps, max_seconds, is_file,
                   clock, tmp_exists, source_fps, has_size, source_len, history,
                   pc, cap, writer, writer_open, cand, start_time, last_emit,
                   now, frame_index, frame_skip, do_detect, last_count,
                   last_boxes, annotated, frame_bytes, exc, success, emitted,
                   tasks, websockets, received, resp, video_resp, mj_pc,
                   last_id, parts, calls, got, oc>>

\* receive_text() raises in the handler: unregister
WsUnregister(w) ==
    /\ ws_pc[w] = "gone"
    /\ websockets' = websockets \ {w}
    /\ ws_pc' = [ws_pc EXCEPT ![w] = "closed"]
    /\ UNCHANGED <<loop, jobs, status, current_count, max_count, frames, error,
                   source_type, output_path, output_media_type, output_filename,
                   last_frame, last_frame_id, source, fps, max_seconds, is_file,
                   clock, tmp_exists, source_fps, has_size, source_len, history,
                   pc, cap, writer, writer_open, cand, start_time, last_emit,
                   now, frame_index, frame_skip, do_detect, last_count,
                   last_boxes, annotated, frame_bytes, exc, success, emitted,
                   tasks, received, resp, video_resp, mj_pc, last_id, parts,
                   calls, got, oc>>

\* the loop starts the coroutines in the order they were handed to it:
\* sockets = list(self.websockets.get(job_id, set()))
BroadcastStart(i) ==
    /\ i \in 1..Len(tasks)
    /\ ~tasks[i].started
    /\ \A j \in 1..(i - 1) : tasks[j].started
    /\ \E q \in Orders(websockets) :
          tasks' = [tasks EXCEPT ![i] = [started |-> TRUE, todo |-> q]]
    /\ UNCHANGED <<loop, jobs, status, current_count, max_count, frames, error,
                   source_type, output_path, output_media_type, output_filename,
                   last_frame, last_frame_id, source, fps, max_seconds, is_file,
                   clock, tmp_exists, source_fps, has_size, source_len, history,
                   pc, cap, writer, writer_open, cand, start_time, last_emit,
                   now, frame_index, frame_skip, do_detect, last_count,
                   last_boxes, annotated, frame_bytes, exc, success, emitted,
                   websockets, ws_pc, received, resp, video_resp, mj_pc,
                   last_id, parts, calls, got, oc>>

\* mutant of BroadcastSend: a send that raises ends the broadcast
BroadcastSendGivesUp(i) ==
    /\ i \in 1..Len(tasks)
    /\ tasks[i].started
    /\ tasks[i].todo # <<>>
    /\ LET ws == Head(tasks[i].todo)
       IN  IF ws_pc[ws] = "open"
           THEN /\ received' = [received EXCEPT ![ws] = Append(@, emitted[i])]
                /\ tasks' = [tasks EXCEPT ![i].todo = Tail(@)]
                /\ UNCHANGED websockets
           ELSE /\ websockets' = websockets \ {ws}
                /\ tasks' = [tasks EXCEPT ![i].todo = <<>>]
                /\ UNCHANGED received
    /\ UNCHANGED <<loop, jobs, status, current_count, max_count, frames, error,
                   source_type, output_path, output_media_type, output_filename,
                   last_frame, last_frame_id, source, fps, max_seconds, is_file,
                   clock, tmp_exists, source_fps, has_size, source_len, history,
                   pc, cap, writer, writer_open, cand, start_time, last_emit,
                   now, frame_index, frame_skip, do_detect, last_count,
                   last_boxes, annotated, frame_bytes, exc, success, emitted,
                   ws_pc, resp, video_resp, mj_pc, last_id, parts, calls, got,
                   oc>>

\* one pass of the for loop: await ws.send_json(payload); a send that raises
\* discards the socket
BroadcastSend(i) ==
    /\ i \in 1..Len(tasks)
    /\ tasks[i].started
    /\ tasks[i].todo # <<>>
    /\ LET ws == Head(tasks[i].todo)
       IN  IF ws_pc[ws] = "open"
           THEN /\ received' = [received EXCEPT ![ws] = Append(@, emitted[i])]
                /\ UNCHANGED websockets
           ELSE /\ websockets' = websockets \ {ws}
                /\ UNCHANGED received
    /\ tasks' = [tasks EXCEPT ![i].todo = Tail(@)]
    /\ UNCHANGED <<loop, jobs, status, current_count, max_count, frames, error,
                   source_type, output_path, output_media_type, output_filename,
                   last_frame, last_frame_id, source, fps, max_seconds, is_file,
                   clock, tmp_exists, source_fps, has_size, source_len, history,
                   pc, cap, writer, writer_open, cand, start_time, last_emit,
                   now, frame_index, frame_skip, do_detect, last_count,
                   last_boxes, annotated, frame_bytes, exc, success, emitted,
                   ws_pc, resp, video_resp, mj_pc, last_id, parts, calls, got,
                   oc>>

\* the websocket clients S and the broadcast coroutines
PushOf(S) ==
    \/ \E w \in S :
          WsConnect(w) \/ WsRegister(w) \/ WsDisconnect(w) \/ WsUnregister(w)
    \/ \E i \in 1..Len(tasks) : BroadcastStart(i) \/ BroadcastSend(i)

Push == PushOf(Subscribers)

\* ---------------------------------------- pull: /api/job/{job_id}/mjpeg
\* get_job_mjpeg: 404 for an unknown job, else the generator starts, last_id = 0
MjOpen ==
    /\ mj_pc = "new"
    /\ mj_pc' = IF JobId \in jobs THEN "poll" ELSE "closed"
    /\ last_id' = 0
    /\ UNCHANGED <<loop, jobs, status, current_count, max_count, frames, error,
                   source_type, output_path, output_media_type, output_filename,
                   last_frame, last_frame_id, source, fps, max_seconds, is_file,
                   clock, tmp_exists, source_fps, has_size, source_len, history,
                   pc, cap, writer, writer_open, cand, start_time, last_emit,
                   now, frame_index, frame_skip, do_detect, last_count,
                   last_boxes, annotated, frame_bytes, exc, success, emitted,
                   tasks, websockets, ws_pc, received, resp, video_resp, parts,
                   calls, got, oc>>

\* current.last_frame_id != last_id
MjPollId ==
    /\ mj_pc = "poll"
    /\ mj_pc' = IF last_frame_id # last_id THEN "poll_frame" ELSE "check"
    /\ UNCHANGED <<loop, jobs, status, current_count, max_count, frames, error,
                   source_type, output_path, output_media_type, output_filename,
                   last_frame, last_frame_id, source, fps, max_seconds, is_file,
                   clock, tmp_exists, source_fps, has_size, source_len, history,
                   pc, cap, writer, writer_open, cand, start_time, last_emit,
                   now, frame_index, frame_skip, do_detect, last_count,
                   last_boxes, annotated, frame_bytes, exc, success, emitted,
                   tasks, websockets, ws_pc, received, resp, video_resp,
                   last_id, parts, calls, got, oc>>

\* ... and current.last_frame
MjPollFrame ==
    /\ mj_pc = "poll_frame"
    /\ mj_pc' = IF last_frame # NoBytes THEN "take_id" ELSE "check"
    /\ UNCHANGED <<loop, jobs, status, current_count, max_count, frames, error,
                   source_type, output_path, output_media_type, output_filename,
                   last_frame, last_frame_id, source, fps, max_seconds, is_file,
                   clock, tmp_exists, source_fps, has_size, source_len, history,
                   pc, cap, writer, writer_open, cand, start_time, last_emit,
                   now, frame_index, frame_skip, do_detect, last_count,
                   last_boxes, annotated, frame_bytes, exc, success, emitted,
                   tasks, websockets, ws_pc, received, resp, video_resp,
                   last_id, parts, calls, got, oc>>

\* mutant of MjTakeId: the sequence number is not recorded
MjTakeIdForgets ==
    /\ mj_pc = "take_id"
    /\ last_id' = last_id
    /\ mj_pc' = "take_frame"
    /\ UNCHANGED <<loop, jobs, status, current_count, max_count, frames, error,
                   source_type, output_path, output_media_type, output_filename,
                   last_frame, last_frame_id, source, fps, max_seconds, is_file,
                   clock, tmp_exists, source_fps, has_size, source_len, history,
                   pc, cap, writer, writer_open, cand, start_time, last_emit,
                   now, frame_index, frame_skip, do_detect, last_count,
                   last_boxes, annotated, frame_bytes, exc, success, emitted,
                   tasks, websockets, ws_pc, received, resp, video_resp, parts,
                   calls, got, oc>>

\* last_id = current.last_frame_id
MjTakeId ==
    /\ mj_pc = "take_id"
    /\ last_id' = last_frame_id
    /\ mj_pc' = "take_frame"
    /\ UNCHANGED <<loop, jobs, status, current_count, max_count, frames, error,
                   source_type, output_path, output_media_type, output_filename,
                   last_frame, last_frame_id, source, fps, max_seconds, is_file,
                   clock, tmp_exists, source_fps, has_size, source_len, history,
                   pc, cap, writer, writer_open, cand, start_time, last_emit,
                   now, frame_index, frame_skip, do_detect, last_count,
                   last_boxes, annotated, frame_bytes, exc, success, emitted,
                   tasks, websockets, ws_pc, received, resp, video_resp, parts,
                   calls, got, oc>>

\* frame = current.last_frame; the part is yielded
MjTakeFrame ==
    /\ mj_pc = "take_frame"
    /\ parts' = Append(parts, [id |-> last_id, frame |-> last_frame])
    /\ mj_pc' = "check"
    /\ UNCHANGED <<loop, jobs, status, current_count, max_count, frames, error,
                   source_type, output_path, output_media_type, output_filename,
                   last_frame, last_frame_id, source, fps, max_seconds, is_file,
                   clock, tmp_exists, source_fps, has_size, source_len, history,
                   pc, cap, writer, writer_open, cand, start_time, last_emit,
                   now, frame_index, frame_skip, do_detect, last_count,
                   last_boxes, annotated, frame_bytes, exc, success, emitted,
                   tasks, websockets, ws_pc, received, resp, video_resp,
                   last_id, calls, got, oc>>

\* if current.status in ("done", "error"): sleep and look again; else sleep
MjCheck ==
    /\ mj_pc = "check"
    /\ mj_pc' = IF status \in {"done", "error"} THEN "recheck" ELSE "poll"
    /\ UNCHANGED <<loop, jobs, status, current_count, max_count, frames, error,
                   source_type, output_path, output_media_type, output_filename,
                   last_frame, last_frame_id, source, fps, max_seconds, is_file,
                   clock, tmp_exists, source_fps, has_size, source_len, history,
                   pc, cap, writer, writer_open, cand, start_time, last_emit,
                   now, frame_index, frame_skip, do_detect, last_count,
                   last_boxes, annotated, frame_bytes, exc, success, emitted,
                   tasks, websockets, ws_pc, received, resp, video_resp,
                   last_id, parts, calls, got, oc>>

\* mutant of MjRecheck: the consumer stops once the job is terminal
MjRecheckStops ==
    /\ mj_pc = "recheck"
    /\ mj_pc' = "closed"
    /\ UNCHANGED <<loop, jobs, status, current_count, max_count, frames, error,
                   source_type, output_path, output_media_type, output_filename,
                   last_frame, last_frame_id, source, fps, max_seconds, is_file,
                   clock, tmp_exists, source_fps, has_size, source_len, history,
                   pc, cap, writer, writer_open, cand, start_time, last_emit,
                   now, frame_index, frame_skip, do_detect, last_count,
                   last_boxes, annotated, frame_bytes, exc, success, emitted,
                   tasks, websockets, ws_pc, received, resp, video_resp,
                   last_id, parts, calls, got, oc>>

\* if current.last_frame_id == last_id: break; else sleep and poll again
MjRecheck ==
    /\ mj_pc = "recheck"
    /\ mj_pc' = IF last_frame_id = last_id THEN "closed" ELSE "poll"
    /\ UNCHANGED <<loop, jobs, status, current_count, max_count, frames, error,
                   source_type, output_path, output_media_type, output_filename,
                   last_frame, last_frame_id, source, fps, max_seconds, is_file,
                   clock, tmp_exists, source_fps, has_size, source_len, history,
                   pc, cap, writer, writer_open, cand, start_time, last_emit,
                   now, frame_index, frame_skip, do_detect, last_count,
                   last_boxes, annotated, frame_bytes, exc, success, emitted,
                   tasks, websockets, ws_pc, received, resp, video_resp,
                   last_id, parts, calls, got, oc>>

Pull ==
    \/ MjOpen \/ MjPollId \/ MjPollFrame \/ MjTakeId \/ MjTakeFrame
    \/ MjCheck \/ MjRecheck


\* ------------------------------------------------- registry: JobManager
\* JobState(job_id=job_id, status="processing"): the other fields take the
\* defaults of the dataclass
NewJobState(id) ==
    [job_id |-> id, status |-> "processing", current_count |-> 0,
     max_count |-> 0, frames |-> 0, error |-> NoError, output_path |-> 0,
     last_frame |-> NoBytes, last_frame_id |-> 0]

\* the JobState object with job_id = id: the fields of job JobId are the
\* variables of this module; no worker runs for another job, whose object
\* stays as it was constructed
JobOf(id) ==
    IF id = JobId
    THEN [job_id |-> id, status |-> status, current_count |-> current_count,
          max_count |-> max_count, frames |-> frames, error |-> error,
          output_path |-> output_path, last_frame |-> last_frame,
          last_frame_id |-> last_frame_id]
    ELSE NewJobState(id)

\* self.websockets[id]
SubscribersOf(id) == IF id = JobId THEN websockets ELSE {}

\* the values uuid4 has returned so far
Issued == {calls[c].job_id : c \in Callers} \ {NoJob}

\* job_id = str(uuid.uuid4()): a value uuid4 has not returned before
CjUuid(c) ==
    /\ calls[c].pc = "idle"
    /\ \E id \in JobIds \ Issued :
          calls' = [calls EXCEPT ![c].pc = "uuid", ![c].job_id = id]
    /\ UNCHANGED <<loop, jobs, status, current_count, max_count, frames, error,
                   source_type, output_path, output_media_type, output_filename,
                   last_frame, last_frame_id, source, fps, max_seconds, is_file,
                   clock, tmp_exists, source_fps, has_size, source_len, history,
                   pc, cap, writer, writer_open, cand, start_time, last_emit,
                   now, frame_index, frame_skip, do_detect, last_count,
                   last_boxes, annotated, frame_bytes, exc, success, emitted,
                   tasks, websockets, ws_pc, received, resp, video_resp, mj_pc,
                   last_id, parts, got, oc>>

\* state = JobState(job_id=job_id, status="processing")
CjConstruct(c) ==
    /\ calls[c].pc = "uuid"
    /\ status' = IF calls[c].job_id = JobId THEN "processing" ELSE status
    /\ calls' = [calls EXCEPT ![c].pc = "construct"]
    /\ UNCHANGED <<loop, jobs, current_count, max_count, frames, error,
                   source_type, output_path, output_media_type, output_filename,
                   last_frame, last_frame_id, source, fps, max_seconds, is_file,
                   clock, tmp_exists, source_fps, has_size, source_len, history,
                   pc, cap, writer, writer_open, cand, start_time, last_emit,
                   now, frame_index, frame_skip, do_detect, last_count,
                   last_boxes, annotated, frame_bytes, exc, success, emitted,
                   tasks, websockets, ws_pc, received, resp, video_resp, mj_pc,
                   last_id, parts, got, oc>>

\* mutant of CjStore: every job is stored under the same key
CjStoreOneKey(c) ==
    /\ calls[c].pc = "construct"
    /\ jobs' = jobs \cup {JobId}
    /\ calls' = [calls EXCEPT ![c].pc = "store"]
    /\ UNCHANGED <<loop, status, current_count, max_count, frames, error,
                   source_type, output_path, output_media_type, output_filename,
                   last_frame, last_frame_id, source, fps, max_seconds, is_file,
                   clock, tmp_exists, source_fps, has_size, source_len, history,
                   pc, cap, writer, writer_open, cand, start_time, last_emit,
                   now, frame_index, frame_skip, do_detect, last_count,
                   last_boxes, annotated, frame_bytes, exc, success, emitted,
                   tasks, websockets, ws_pc, received, resp, video_resp, mj_pc,
                   last_id, parts, got, oc>>

\* self.jobs[job_id] = state
CjStore(c) ==
    /\ calls[c].pc = "construct"
    /\ jobs' = jobs \cup {calls[c].job_id}
    /\ calls' = [calls EXCEPT ![c].pc = "store"]
    /\ UNCHANGED <<loop, status, current_count, max_count, frames, error,
                   source_type, output_path, output_media_type, output_filename,
                   last_frame, last_frame_id, source, fps, max_seconds, is_file,
                   clock, tmp_exists, source_fps, has_size, source_len, history,
                   pc, cap, writer, writer_open, cand, start_time, last_emit,
                   now, frame_index, frame_skip, do_detect, last_count,
                   last_boxes, annotated, frame_bytes, exc, success, emitted,
                   tasks, websockets, ws_pc, received, resp, video_resp, mj_pc,
                   last_id, parts, got, oc>>

\* self.websockets[job_id] = set()
CjSubscribers(c) ==
    /\ calls[c].pc = "store"
    /\ websockets' = IF calls[c].job_id = JobId THEN {} ELSE websockets
    /\ calls' = [calls EXCEPT ![c].pc = "subscribers"]
    /\ UNCHANGED <<loop, jobs, status, current_count, max_count, frames, error,
                   source_type, output_path, output_media_type, output_filename,
                   last_frame, last_frame_id, source, fps, max_seconds, is_file,
                   clock, tmp_exists, source_fps, has_size, source_len, history,
                   pc, cap, writer, writer_open, cand, start_time, last_emit,
                   now, frame_index, frame_skip, do_detect, last_count,
                   last_boxes, annotated, frame_bytes, exc, success, emitted,
                   tasks, ws_pc, received, resp, video_resp, mj_pc, last_id,
                   parts, got, oc>>

\* return state
CjReturn(c) ==
    /\ calls[c].pc = "subscribers"
    /\ calls' = [calls EXCEPT ![c].pc = "returned", ![c].ret = calls[c].job_id]
    /\ UNCHANGED <<loop, jobs, status, current_count, max_count, frames, error,
                   source_type, output_path, output_media_type, output_filename,
                   last_frame, last_frame_id, source, fps, max_seconds, is_file,
                   clock, tmp_exists, source_fps, has_size, source_len, history,
                   pc, cap, writer, writer_open, cand, start_time, last_emit,
                   now, frame_index, frame_skip, do_detect, last_count,
                   last_boxes, annotated, frame_bytes, exc, success, emitted,
                   tasks, websockets, ws_pc, received, resp, video_resp, mj_pc,
                   last_id, parts, got, oc>>

\* JobManager.create_job, statement by statement, in thread c
create_job(c) ==
    CjUuid(c) \/ CjConstruct(c) \/ CjStore(c) \/ CjSubscribers(c) \/ CjReturn(c)

\* JobManager.get_job(id): self.jobs.get(job_id)
lookup(id) ==
    /\ got' = [key |-> id, job |-> IF id \in jobs THEN id ELSE NoJob]
    /\ UNCHANGED <<loop, jobs, status, current_count, max_count, frames, error,
                   source_type, output_path, output_media_type, output_filename,
                   last_frame, last_frame_id, source, fps, max_seconds, is_file,
                   clock, tmp_exists, source_fps, has_size, source_len, history,
                   pc, cap, writer, writer_open, cand, start_time, last_emit,
                   now, frame_index, frame_skip, do_detect, last_count,
                   last_boxes, annotated, frame_bytes, exc, success, emitted,
                   tasks, websockets, ws_pc, received, resp, video_resp, mj_pc,
                   last_id, parts, calls, oc>>

\* ------------------------------------------- JobManager._open_capture
\* the backend list of a file source and of a live source
FileBackends == <<"CAP_FFMPEG", "CAP_ANY">>
LiveBackends == <<"CAP_FFMPEG", "CAP_GSTREAMER", "CAP_MSMF", "CAP_ANY">>

\* the attempt with no explicit backend: cv2.VideoCapture(source)
Generic == "generic"

\* the call: backends is built; getattr(cv2, name, None) is None for a backend
\* constant the cv2 build does not define
OcCall ==
    /\ oc.pc = "idle"
    /\ \E file \in BOOLEAN :
          LET list == IF file THEN FileBackends ELSE LiveBackends
          IN  \E defined \in SUBSET {list[k] : k \in 1..Len(list)} :
                 oc' = [oc EXCEPT !.pc = "for", !.is_file = file,
                                  !.defined = defined, !.backends = list,
                                  !.i = 1]
    /\ UNCHANGED <<loop, jobs, status, current_count, max_count, frames, error,
                   source_type, output_path, output_media_type, output_filename,
                   last_frame, last_frame_id, source, fps, max_seconds, is_file,
                   clock, tmp_exists, source_fps, has_size, source_len, history,
                   pc, cap, writer, writer_open, cand, start_time, last_emit,
                   now, frame_index, frame_skip, do_detect, last_count,
                   last_boxes, annotated, frame_bytes, exc, success, emitted,
                   tasks, websockets, ws_pc, received, resp, video_resp, mj_pc,
                   last_id, parts, calls, got>>

\* if backend is None: continue
OcSkip ==
    /\ oc.pc = "for"
    /\ oc.i <= Len(oc.backends)
    /\ oc.backends[oc.i] \notin oc.defined
    /\ oc' = [oc EXCEPT !.i = @ + 1]
    /\ UNCHANGED <<loop, jobs, status, current_count, max_count, frames, error,
                   source_type, output_path, output_media_type, output_filename,
                   last_frame, last_frame_id, source, fps, max_seconds, is_file,
                   clock, tmp_exists, source_fps, has_size, source_len, history,
                   pc, cap, writer, writer_open, cand, start_time, last_emit,
                   now, frame_index, frame_skip, do_detect, last_count,
                   last_boxes, annotated, frame_bytes, exc, success, emitted,
                   tasks, websockets, ws_pc, received, resp, video_resp, mj_pc,
                   last_id, parts, calls, got>>

\* cap = cv2.VideoCapture(source, backend): the capture opens or it does not
OcCreate ==
    /\ oc.pc = "for"
    /\ oc.i <= Len(oc.backends)
    /\ oc.backends[oc.i] \in oc.defined
    /\ \E opened \in BOOLEAN :
          oc' = [oc EXCEPT !.pc = "is_opened", !.cap = oc.backends[oc.i],
                           !.tried = Append(@, [backend |-> oc.backends[oc.i],
                                                opened |-> opened]),
                           !.unreleased = @ \cup {oc.backends[oc.i]}]
    /\ UNCHANGED <<loop, jobs, status, current_count, max_count, frames, error,
                   source_type, output_path, output_media_type, output_filename,
                   last_frame, last_frame_id, source, fps, max_seconds, is_file,
                   clock, tmp_exists, source_fps, has_size, source_len, history,
                   pc, cap, writer, writer_open, cand, start_time, last_emit,
                   now, frame_index, frame_skip, do_detect, last_count,
                   last_boxes, annotated, frame_bytes, exc, success, emitted,
                   tasks, websockets, ws_pc, received, resp, video_resp, mj_pc,
                   last_id, parts, calls, got>>

\* mutant of OcIsOpened: a capture that did not open is not released
OcIsOpenedNoRelease ==
    /\ oc.pc = "is_opened"
    /\ IF oc.tried[Len(oc.tried)].opened
       THEN oc' = [oc EXCEPT !.pc = "returned", !.ret = oc.cap]
       ELSE oc' = [oc EXCEPT !.pc = "for", !.i = @ + 1]
    /\ UNCHANGED <<loop, jobs, status, current_count, max_count, frames, error,
                   source_type, output_path, output_media_type, output_filename,
                   last_frame, last_frame_id, source, fps, max_seconds, is_file,
                   clock, tmp_exists, source_fps, has_size, source_len, history,
                   pc, cap, writer, writer_open, cand, start_time, last_emit,
                   now, frame_index, frame_skip, do_detect, last_count,
                   last_boxes, annotated, frame_bytes, exc, success, emitted,
                   tasks, websockets, ws_pc, received, resp, video_resp, mj_pc,
                   last_id, parts, calls, got>>

\* if cap.isOpened(): return cap; cap.release()
OcIsOpened ==
    /\ oc.pc = "is_opened"
    /\ IF oc.tried[Len(oc.tried)].opened
       THEN oc' = [oc EXCEPT !.pc = "returned", !.ret = oc.cap]
       ELSE oc' = [oc EXCEPT !.pc = "for", !.i = @ + 1,
                             !.unreleased = @ \ {oc.cap}]
    /\ UNCHANGED <<loop, jobs, status, current_count, max_count, frames, error,
                   source_type, output_path, output_media_type, output_filename,
                   last_frame, last_frame_id, source, fps, max_seconds, is_file,
                   clock, tmp_exists, source_fps, has_size, source_len, history,
                   pc, cap, writer, writer_open, cand, start_time, last_emit,
                   now, frame_index, frame_skip, do_detect, last_count,
                   last_boxes, annotated, frame_bytes, exc, success, emitted,
                   tasks, websockets, ws_pc, received, resp, video_resp, mj_pc,
                   last_id, parts, calls, got>>

\* after the loop: cap = cv2.VideoCapture(source)
OcGeneric ==
    /\ oc.pc = "for"
    /\ oc.i > Len(oc.backends)
    /\ \E opened \in BOOLEAN :
          oc' = [oc EXCEPT !.pc = "generic_is_opened", !.cap = Generic,
                           !.tried = Append(@, [backend |-> Generic,
                                                opened |-> opened]),
                           !.unreleased = @ \cup {Generic}]
    /\ UNCHANGED <<loop, jobs, status, current_count, max_count, frames, error,
                   source_type, output_path, output_media_type, output_filename,
                   last_frame, last_frame_id, source, fps, max_seconds, is_file,
                   clock, tmp_exists, source_fps, has_size, source_len, history,
                   pc, cap, writer, writer_open, cand, start_time, last_emit,
                   now, frame_index, frame_skip, do_detect, last_count,
                   last_boxes, annotated, frame_bytes, exc, success, emitted,
                   tasks, websockets, ws_pc, received, resp, video_resp, mj_pc,
                   last_id, parts, calls, got>>

\* if cap.isOpened(): return cap; cap.release(); return None
OcGenericIsOpened ==
    /\ oc.pc = "generic_is_opened"
    /\ IF oc.tried[Len(oc.tried)].opened
       THEN oc' = [oc EXCEPT !.pc = "returned", !.ret = oc.cap]
       ELSE oc' = [oc EXCEPT !.pc = "returned", !.ret = "none",
                             !.unreleased = @ \ {oc.cap}]
    /\ UNCHANGED <<loop, jobs, status, current_count, max_count, frames, error,
                   source_type, output_path, output_media_type, output_filename,
                   last_frame, last_frame_id, source, fps, max_seconds, is_file,
                   clock, tmp_exists, source_fps, has_size, source_len, history,
                   pc, cap, writer, writer_open, cand, start_time, last_emit,
                   now, frame_index, frame_skip, do_detect, last_count,
                   last_boxes, annotated, frame_bytes, exc, success, emitted,
                   tasks, websockets, ws_pc, received, resp, video_resp, mj_pc,
                   last_id, parts, calls, got>>

open_capture ==
    \/ OcCall \/ OcSkip \/ OcCreate \/ OcIsOpened \/ OcGeneric
    \/ OcGenericIsOpened
\* ================================================================ claims
\* positions of the terminal events among the events the worker has emitted
TerminalEvents == {i \in 1..Len(emitted) : emitted[i].type \in {"done", "error"}}

FrameEvents == {i \in 1..Len(emitted) : emitted[i].type = "frame"}

\* C1 (as claimed): on every exit path of _process_capture the worker emits
\* exactly one terminal event (done or error) in total, and no frame event
\* follows a terminal event.  Violated on the exception path, where the error
\* event of the except branch is followed by the done event of the completion.
C1_ExactlyOneTerminalEvent ==
    /\ Cardinality(TerminalEvents) <= 1
    /\ pc = "returned" => Cardinality(TerminalEvents) = 1
    /\ \A i \in TerminalEvents : \A j \in FrameEvents : j < i

\* C2 (as claimed): once the worker of a file-backed job has exited, the
\* temporary input file no longer exists.  Violated on the open-failure path,
\* which returns before the finally clause that removes the file.
C2_TempFileRemoved == (is_file /\ pc = "returned") => ~tmp_exists

\* C3: the status only moves processing -> done or processing -> error; once
\* done or error it never changes again.
C3_StatusOneWay ==
    [][/\ status \in {"done", "error"} => status' = status
       /\ status' # status =>
             \/ status = "idle" /\ status' = "processing"
             \/ status = "processing" /\ status' \in {"done", "error"}]_vars

\* the worker has returned after an exception in the frame loop: the status
\* finalisation has acted on a status that was error
C3_Witness ==
    pc = "returned" /\ status = "error" /\ error.kind = "exception"

\* the worker is on the open-failure path, after state.status was written
OpenFailed ==
    pc \in {"open_fail_error", "open_fail_emit"} \/ (pc = "returned" /\ cap = "none")

\* C7: if no attempt opens the source, the job ends with status error, the
\* error message names the scheme of the source, exactly one error event (and
\* nothing else) is emitted, frames stays 0, and the status is not processing
\* or done in any later state.
C7_OpenFailure ==
    /\ OpenFailed => status = "error" /\ frames = 0 /\ FrameEvents = {}
    /\ (OpenFailed /\ pc # "open_fail_error") =>
          /\ error.kind = "open_failed"
          /\ Len(source) = 1 => error.detail = "unknown"
          /\ (Len(source) > 1 /\ source[1] = "RTSP") => error.detail = "rtsp"
          /\ (Len(source) > 1 /\ source[1] = "http") => error.detail = "http"
    /\ (OpenFailed /\ pc = "returned") => emitted = <<ErrorPayload(error)>>

\* the worker has returned on the open-failure path of an RTSP stream
C7_Witness == pc = "returned" /\ cap = "none" /\ Len(source) > 1 /\ source[1] = "RTSP"

\* a file was opened and its first read delivered no frame
FirstReadEmpty == is_file /\ success = "false" /\ frame_index = 0

\* C8: if a file opens and its first read yields no frame, the job ends with
\* status done, frames = 0, max_count = 0, no error, and the done event is the
\* only event emitted.
C8_EmptyFile ==
    FirstReadEmpty =>
       /\ frames = 0 /\ max_count = 0 /\ error = NoError
       /\ status \in {"processing", "done"}
       /\ FrameEvents = {}
       /\ pc = "returned" =>
             /\ status = "done"
             /\ emitted = <<DonePayload(0, 0, output_path # 0)>>

\* the worker of such a job has returned
C8_Witness == FirstReadEmpty /\ pc = "returned"


\* C4 (as claimed): every status snapshot a reader takes shows
\* max_count >= current_count, and max_count and frames never decrease from one
\* state to the next.  Violated by a snapshot taken between the write of
\* state.current_count and the write of state.max_count.
C4_MaxBoundsCurrent ==
    [][/\ resp'.code = 200 => resp'.max_count >= resp'.current_count
       /\ max_count' >= max_count
       /\ frames' >= frames]_vars

\* the events (frame and done) among the messages delivered to subscriber w
Delivered(w) ==
    {k \in 1..Len(received[w]) : received[w][k].type \in {"frame", "done"}}

\* the frame index of a frame event, the frame total of a done event
FrameNo(m) == IF m.type = "frame" THEN m.frame_index ELSE m.frames

\* C5 (as claimed): the events delivered to a subscriber carry non-decreasing
\* max_count and non-decreasing frame index / frames, whatever the interleaving
\* of the broadcast coroutines.  Violated when the coroutine of a later frame
\* event sends to the subscriber before the coroutine of an earlier one.
C5_DeliveredInOrder ==
    \A w \in Subscribers : \A j, k \in Delivered(w) :
        j < k => /\ received[w][j].max_count <= received[w][k].max_count
                 /\ FrameNo(received[w][j]) <= FrameNo(received[w][k])

\* subscriber w was accepted and registered when the status was done or error:
\* its first message is the status message and carries that status
LateSubscriber(w) ==
    /\ received[w] # <<>>
    /\ received[w][1].type = "status"
    /\ received[w][1].status \in {"done", "error"}

\* C6 (as claimed): a subscriber that connects after the status has become
\* done or error receives the status message and nothing after it.  Violated by
\* a subscriber registered after the status was written and before the
\* broadcast of the terminal event took its snapshot of the sockets.
C6_NothingAfterTerminalStatus ==
    \A w \in Subscribers : LateSubscriber(w) => Len(received[w]) = 1

\* the integer nearest to s / f, the even one of the two when s / f lies half
\* way between them; at least 1
Nearest(s, f) ==
    CHOOSE k \in 0..(s + 1) :
        \/ 2 * s < (2 * k + 1) * f /\ (2 * k - 1) * f < 2 * s
        \/ 2 * s = (2 * k + 1) * f /\ k % 2 = 0
        \/ 2 * s = (2 * k - 1) * f /\ k % 2 = 0

Stride == Max2(1, Nearest(source_fps, fps))

\* the frame indices up to n that are multiples of the stride
Analysed(n) == {i \in 1..n : i % Stride = 0}

\* the worker is in the frame loop, between two frames
BetweenFrames == pc \in {"pace", "loop", "read"}

\* the worker is past the decision on do_detect for the frame just read
Decided == pc \in {"set_current", "set_max", "draw", "snap_frame", "snap_id", "emit", "pace"}

\* the worker is past the annotation of the frame just read
Drawn == pc \in {"snap_frame", "snap_id", "emit", "pace"}

\* C9: for a file of native rate s > 0 sampled at f > 0 the stride is
\* max(1, round(s / f)); frame i is analysed exactly when i is a multiple of
\* the stride; every frame counts in frames and is drawn with the boxes of the
\* most recent analysis pass (none before the first pass).
C9_Stride ==
    (is_file /\ source_fps > 0 /\ fps > 0 /\ frame_index >= 1) =>
        /\ frame_skip = Stride
        /\ frames = frame_index
        /\ Decided => (do_detect <=> frame_index % Stride = 0)
        /\ BetweenFrames =>
              {emitted[i].frame_index : i \in FrameEvents} = Analysed(frame_index)
        /\ Drawn =>
              /\ annotated.index = frame_index
              /\ frame_index < Stride => annotated.boxes = <<>>
              /\ \A k \in 1..Len(annotated.boxes) :
                    annotated.boxes[k] = Stride * (frame_index \div Stride)

\* native rate MaxSourceFps sampled at MaxFps: a frame that is not analysed was
\* drawn with the box found by the pass on the frame before it
C9_Witness ==
    /\ is_file /\ source_fps = MaxSourceFps /\ fps = MaxFps
    /\ pc = "pace" /\ frame_index = 3 /\ frames = 3 /\ ~do_detect
    /\ annotated.boxes = <<2>>

\* C10 (as claimed): no frame part is emitted while the snapshot sequence
\* number is 0, and the sequence number leaves 0 only at a frame that receives
\* the analysis pass.  Violated by a file whose stride is 2: frame 1 is not
\* analysed, yet it is encoded and makes the sequence number 1.
C10_FirstSnapshotAtAnalysis ==
    [][/\ parts' # <<>> => last_frame_id' >= 1
       /\ (last_frame_id = 0 /\ last_frame_id' # 0) => do_detect]_vars

\* C10 (amended): no frame part is emitted while the snapshot sequence number
\* is 0; the sequence number grows by one at every frame that is encoded,
\* analysed or not, after the snapshot bytes were stored, so it first becomes
\* 1 at the first encoded frame.
C10_FirstSnapshotAtEncodedFrame ==
    [][/\ parts' # <<>> => last_frame_id' >= 1
       /\ \A k \in 1..Len(parts') : parts'[k].id >= 1 /\ parts'[k].frame # NoBytes
       /\ last_frame_id' # last_frame_id =>
             /\ last_frame_id' = last_frame_id + 1
             /\ frame_bytes # NoBytes /\ last_frame = frame_bytes
       /\ (pc' \in {"emit", "pace"} /\ frame_bytes' # NoBytes) =>
             /\ last_frame_id' >= 1
             /\ last_frame_id = 0 => last_frame_id' = 1
       /\ last_frame_id' <= frame_index']_vars

\* the consumer has emitted a part with sequence number 1 while the only frame
\* read so far was not analysed
C10_Witness ==
    /\ frame_index = 1 /\ frame_skip = 2 /\ ~do_detect /\ last_frame_id = 1
    /\ parts # <<>> /\ parts[1].id = 1

\* the consumer stops: the generator of the MJPEG response returns
MjStops == mj_pc # "closed" /\ mj_pc' = "closed"

\* C11: the pull consumer emits a part only in a poll that found a sequence
\* number different from the one of its previous part (so the numbers of its
\* parts strictly increase); it stops exactly when it saw the job terminal and,
\* one poll cycle later, the sequence number it last recorded; and once the job
\* is terminal the consumer eventually stops.
C11_PullEmitsAndStops ==
    /\ [][/\ parts' # parts =>
                /\ mj_pc = "take_frame"
                /\ parts' = Append(parts, [id |-> last_id, frame |-> last_frame])
                /\ last_id >= 1
                /\ parts # <<>> => last_id > parts[Len(parts)].id
          /\ MjStops =>
                \/ mj_pc = "new" /\ JobId \notin jobs
                \/ /\ mj_pc = "recheck" /\ status \in {"done", "error"}
                   /\ last_frame_id = last_id
          /\ (mj_pc = "recheck" /\ mj_pc' # mj_pc /\ last_frame_id = last_id) =>
                mj_pc' = "closed"]_vars
    /\ (status \in {"done", "error"}) ~> (mj_pc = "closed")

\* the consumer emitted two parts and stopped after the job was done
C11_Witness ==
    mj_pc = "closed" /\ status = "done" /\ Len(parts) >= 2 /\ last_id = last_frame_id

\* C12 (as claimed): every frame the worker reads, analysed or not, overwrites
\* the snapshot and adds exactly one to the sequence number, so after the
\* snapshot step of a frame the number equals the number of frames read; it
\* never decreases.  Violated by a frame whose JPEG encoding fails: the snapshot
\* and the number are left as they were.
C12_SnapshotEveryFrame ==
    [][/\ last_frame_id' >= last_frame_id
       /\ (status' = "processing" /\ pc' \in {"emit", "pace"}) =>
             /\ last_frame_id' = frames'
             /\ last_frame' = frame_bytes']_vars

\* C13: a request for the output video is answered with the file only when
\* the job is known, its status is done and an output path is recorded; in
\* every other state it is answered 404.
C13_VideoOnlyWhenDone ==
    [][video_resp' # video_resp =>
          IF JobId \in jobs /\ status = "done" /\ output_path # 0
          THEN /\ video_resp'.code = 200
               /\ video_resp'.path = output_path
          ELSE video_resp'.code = 404]_vars

\* the output video of a finished job was served
C13_Witness ==
    video_resp.code = 200 /\ status = "done" /\ video_resp.path = output_path

\* broadcast coroutine i is inside its for loop, about to send to a socket
Sending(i) == tasks[i].started /\ tasks[i].todo # <<>>

\* the positions at which the worker hands an event to the loop
EmitPoints == {"emit", "except_emit", "open_fail_emit", "done_emit"}

\* C14: a send that fails removes that subscriber from the set and the
\* broadcast goes on with the rest of its snapshot, in order, delivering its
\* event to each socket that accepts it; the worker hands an event over in one
\* step that is always possible and performs no send.
C14_BestEffortDelivery ==
    /\ [][/\ \A i \in 1..Len(tasks) :
                (Sending(i) /\ tasks'[i] # tasks[i]) =>
                   LET ws == Head(tasks[i].todo)
                   IN  /\ tasks'[i].todo = Tail(tasks[i].todo)
                       /\ IF ws_pc[ws] = "open"
                          THEN /\ received'[ws] = Append(received[ws], emitted[i])
                               /\ websockets' = websockets
                          ELSE /\ ws \notin websockets'
                               /\ received' = received
          /\ emitted' # emitted =>
                /\ pc \in EmitPoints /\ pc' # pc
                /\ Len(emitted') = Len(emitted) + 1
                /\ tasks' = Append(tasks, NewTask)
                /\ received' = received /\ websockets' = websockets]_vars
    /\ [](pc \in EmitPoints => ENABLED StreamWorker)

\* the only broadcast so far met a dead socket first, removed it, and still
\* delivered its event to the other subscriber
C14_Witness ==
    /\ Len(tasks) = 1 /\ tasks[1].started /\ tasks[1].todo = <<>>
    /\ ws_pc[1] = "gone" /\ websockets = {2}
    /\ Len(received[1]) = 1
    /\ Len(received[2]) = 2 /\ received[2][2] = emitted[1]

\* the last event the worker emitted
LastEvent == emitted[Len(emitted)]

\* C15 (as claimed): when the worker has returned, the last event emitted is a
\* done event exactly when the final status is done, and an error event
\* carrying the job's error message exactly when the final status is error.
\* Violated after an exception in the frame loop: the status is error and the
\* last event is the done event that follows the error event.
C15_TerminalEventMatchesStatus ==
    pc = "returned" =>
        /\ emitted # <<>>
        /\ LastEvent.type = "done" <=> status = "done"
        /\ (LastEvent.type = "error" /\ LastEvent.message = error) <=> status = "error"

\* the fields of the JobState
JobFields ==
    <<status, current_count, max_count, frames, error, source_type,
      output_path, output_media_type, output_filename, last_frame, last_frame_id>>

\* C16 (as claimed): once the status is done or error no field of the job is
\* written again.  Violated on both error paths, which write state.status =
\* "error" first and state.error after it.
C16_TerminalJobImmutable ==
    [][(status \in {"done", "error"}) => UNCHANGED JobFields]_vars

\* the calls of create_job that have stored their job; those that have returned
Stored == {c \in Callers : calls[c].pc \in {"store", "subscribers", "returned"}}
Returned == {c \in Callers : calls[c].pc = "returned"}

\* C17: every create_job returns a job with status processing, zero counters,
\* an empty subscriber set and an identifier no other call returned; get_job
\* returns the job stored under the key, None for a key under which nothing
\* was stored; the registry holds exactly the jobs stored and never loses one.
C17_Registry ==
    /\ [][/\ jobs \subseteq jobs'
          /\ got' # got =>
                got'.job = IF got'.key \in jobs THEN got'.key ELSE NoJob]_vars
    /\ [](/\ jobs = {calls[c].job_id : c \in Stored}
          /\ got.job # NoJob => got.job = got.key /\ got.job \in jobs
          /\ \A c \in Returned :
                /\ calls[c].ret = calls[c].job_id
                /\ calls[c].ret \in jobs
                /\ JobOf(calls[c].ret) = NewJobState(calls[c].ret)
                /\ SubscribersOf(calls[c].ret) = {}
                /\ \A d \in Returned : d # c => calls[d].ret # calls[c].ret)

\* two concurrent calls have returned two jobs, one of them job JobId, and a
\* get_job for a key never issued found nothing
C17_Witness ==
    /\ Returned = Callers
    /\ \E c \in Callers : calls[c].ret = JobId
    /\ got.key \notin jobs /\ got.key # NoJob /\ got.job = NoJob

\* the worker thread has ended, by a return or by an exception nothing caught
ThreadEnded == pc \in {"returned", "crashed"}

\* C18 (as claimed, in its finite form): the worker thread does not end before
\* the status is done or error and a terminal event was emitted.  Violated
\* when the writer negotiation raises: that code is outside the try statement,
\* the thread dies and the job stays processing for ever.
C18_WorkerEndsTerminal ==
    ThreadEnded => status \in {"done", "error"} /\ TerminalEvents # {}

\* C19 (as claimed): when the worker thread has ended after the source was
\* opened, the capture handle is released and no output writer is open; after
\* an open failure there is no capture handle.  Violated when the writer
\* negotiation raises: the thread ends before the try statement whose finally
\* clause releases the capture.
C19_HandlesReleased ==
    /\ (ThreadEnded /\ ~OpenFailed) => cap = "released" /\ ~writer_open
    /\ OpenFailed => cap = "none"

\* an exception was raised in the frame loop; the except branch has written
\* the status; it has written the error message too
Raised == exc # NoError
StatusWritten == Raised /\ pc # "except_status"
ErrorWritten == StatusWritten /\ pc # "except_error"

\* the counts the frame events emitted so far carried
EmittedCounts == {emitted[i].count : i \in FrameEvents}

\* C20: after an exception while reading, analysing or writing a frame the
\* status is error and the error is the message of the exception;
\* current_count is the result of the last analysis pass that returned,
\* max_count the greatest result so far, frames the number of frames read;
\* none of the three changes afterwards, and a status snapshot shows them.
C20_PartialResultsKept ==
    /\ [][/\ Raised => UNCHANGED <<current_count, max_count, frames>>
          /\ (Raised' /\ ~Raised) => UNCHANGED <<current_count, max_count, frames>>
          /\ (ErrorWritten /\ resp' # resp) =>
                /\ resp'.code = 200 /\ resp'.status = "error"
                /\ resp'.error = exc
                /\ resp'.current_count = current_count
                /\ resp'.max_count = max_count
                /\ resp'.frames = frames]_vars
    /\ [](/\ StatusWritten => status = "error"
          /\ ErrorWritten => error = exc /\ error.kind = "exception"
          /\ Raised =>
                /\ current_count = last_count
                /\ frames = frame_index
                /\ \A c \in EmittedCounts \cup {current_count} : max_count >= c
                /\ max_count \in EmittedCounts \cup {current_count, 0})

\* the write of frame 2 raised after its analysis found a person; the worker
\* has returned and a status snapshot taken afterwards shows the results
C20_Witness ==
    /\ pc = "returned" /\ error = ExcMessage("write") /\ frames = 2
    /\ max_count = 1
    /\ resp.status = "error" /\ resp.error = error
    /\ resp.frames = 2 /\ resp.max_count = 1

\* the position of backend b in the list of the call
Pos(b) == CHOOSE k \in 1..Len(oc.backends) : oc.backends[k] = b

\* the attempts made so far with an explicit backend
Explicit == {k \in 1..Len(oc.tried) : oc.tried[k].backend # Generic}

LastTried == oc.tried[Len(oc.tried)]

\* C21: _open_capture tries the backends in list order, leaving out none that
\* is defined; no attempt follows one that opened; a capture that did not open
\* is released; the attempt with no backend is made only after every backend
\* failed; None is returned only when that attempt failed too; at return the
\* only capture not released is the one returned.
C21_OpenOrder ==
    /\ \A j, k \in Explicit :
          j < k => Pos(oc.tried[j].backend) < Pos(oc.tried[k].backend)
    /\ \A k \in Explicit : \A b \in oc.defined :
          Pos(b) < Pos(oc.tried[k].backend) =>
             \E j \in Explicit : j < k /\ oc.tried[j].backend = b
    /\ \A k \in 1..Len(oc.tried) :
          /\ k < Len(oc.tried) => ~oc.tried[k].opened
          /\ oc.tried[k].backend = Generic =>
                /\ k = Len(oc.tried)
                /\ oc.defined = {oc.tried[j].backend : j \in Explicit}
    /\ oc.unreleased \subseteq {oc.cap}
    /\ oc.pc = "for" => oc.unreleased = {}
    /\ oc.pc = "returned" =>
          /\ oc.tried # <<>>
          /\ IF oc.ret = "none"
             THEN /\ oc.unreleased = {}
                  /\ LastTried.backend = Generic /\ ~LastTried.opened
             ELSE /\ oc.unreleased = {oc.ret}
                  /\ LastTried.backend = oc.ret /\ LastTried.opened

\* a live source: FFMPEG and GSTREAMER did not open and were released, MSMF
\* opened and was returned, ANY was not tried
C21_Witness ==
    /\ oc.pc = "returned" /\ ~oc.is_file /\ oc.ret = "CAP_MSMF"
    /\ Len(oc.tried) = 3 /\ oc.tried[1].backend = "CAP_FFMPEG"
    /\ oc.tried[2].backend = "CAP_GSTREAMER" /\ oc.unreleased = {"CAP_MSMF"}

\* the worker is past the place of the writer negotiation
Negotiated ==
    /\ ~OpenFailed
    /\ pc \notin {"idle", "start", "setup", "open_fail_status", "negotiate",
                  "record_path", "record_media", "record_name", "crashed"}

\* the done events emitted
DoneEvents == {i \in 1..Len(emitted) : emitted[i].type = "done"}

\* C22: a writer is negotiated only for a file that reports a frame size; the
\* candidates are tried in order and the first that opens is kept and recorded
\* on the job with its path, media type and filename, no later one being
\* tried; if none opens the job has no output path, the done event and the
\* status snapshot carry no video_url, and frames are counted, analysed and
\* announced as they are with a writer.
C22_WriterNegotiation ==
    /\ [][/\ pc' \in {"negotiate", "record_path", "record_media", "record_name"} =>
                is_file' /\ has_size'
          /\ (pc # "setup" /\ cand' # cand) =>
                /\ pc = "negotiate" /\ cand' = cand + 1
                /\ writer = 0 /\ writer' = 0 /\ ~writer_open'
          /\ (writer = 0 /\ writer' # 0) =>
                /\ pc = "negotiate" /\ writer' = cand
                /\ cand' = cand /\ pc' = "record_path"
          /\ writer # 0 => writer' \in {writer, 0} /\ (pc # "setup" => cand' = cand)
          /\ (resp' # resp /\ resp'.code = 200) =>
                (resp'.video_url <=> output_path # 0)]_vars
    /\ [](/\ cand \in 0..(NumWriterCandidates + 1)
          /\ Negotiated =>
                /\ (~is_file \/ ~has_size) => writer = 0
                /\ writer # 0 =>
                      /\ writer \in 1..NumWriterCandidates
                      /\ output_path = writer
                      /\ output_media_type =
                            (IF writer = 4 THEN "video/webm" ELSE "video/mp4")
                      /\ output_filename = (IF writer = 4 THEN ".webm" ELSE ".mp4")
                /\ writer = 0 =>
                      /\ output_path = 0 /\ output_media_type = "none"
                      /\ output_filename = "none"
                      /\ is_file /\ has_size => cand = NumWriterCandidates + 1
                /\ \A i \in DoneEvents : emitted[i].video_url <=> output_path # 0
                /\ BetweenFrames =>
                      /\ frames = frame_index
                      /\ {emitted[i].frame_index : i \in FrameEvents} = 1..frame_index
                /\ (pc = "returned" /\ ~Raised) =>
                      /\ status = "done"
                      /\ LastEvent = DonePayload(max_count, frame_index, output_path # 0))

\* every candidate failed: the job of a file with a frame size is done, all of
\* its frames were announced, and neither the done event nor the status
\* snapshot offers a video
C22_Witness ==
    /\ pc = "returned" /\ is_file /\ has_size /\ writer = 0 /\ output_path = 0
    /\ cand = NumWriterCandidates + 1
    /\ frames = MaxFrames /\ Cardinality(FrameEvents) = MaxFrames
    /\ LastEvent.type = "done" /\ ~LastEvent.video_url
    /\ resp.code = 200 /\ resp.status = "done" /\ ~resp.video_url

\* the worker left the loop at the budget check: it is past the loop, no
\* exception was raised and the last read, if there was one, gave a frame
BudgetStopped ==
    /\ pc \in {"finally", "finalize", "history", "done_emit", "returned"}
    /\ ~OpenFailed /\ ~Raised /\ success # "false"

\* C23: at the start of an iteration the worker leaves the loop exactly when a
\* budget max_seconds > 0 is set and more than max_seconds have passed since
\* start_time; it then reads no further frame and the job ends done, not
\* error; a budget of 0 never stops the job.
C23_TimeBudget ==
    /\ [][/\ (pc = "loop" /\ pc' # pc) =>
                IF max_seconds > 0 /\ clock - start_time > max_seconds * TicksPerSec
                THEN pc' = "finally"
                ELSE pc' = "read"
          /\ BudgetStopped => frames' = frames /\ frame_index' = frame_index]_vars
    /\ [](BudgetStopped =>
             /\ max_seconds > 0
             /\ status # "error"
             /\ pc \in {"history", "done_emit", "returned"} => status = "done"
             /\ frames = frame_index /\ frames <= source_len)

\* the budget of one second ran out after the first frame: the job is done
\* and the remaining frames of the source were not read
C23_Witness ==
    /\ pc = "returned" /\ BudgetStopped /\ max_seconds = 1
    /\ status = "done" /\ frames = 1 /\ source_len > 1

\* the worker decides on the analysis of the frame it has just read
Deciding == pc = "decide" /\ pc' # pc

\* C24: a frame of a live source sampled at f > 0 is analysed exactly when at
\* least 1/f seconds lie between its read and the read of the frame analysed
\* before it; the first frame is always analysed; at f = 0 every frame is;
\* so two analysed frames are at least 1/f apart.
C24_LiveSampling ==
    [][(Deciding /\ ~is_file) =>
          /\ frame_index = 1 => do_detect'
          /\ fps = 0 => do_detect'
          /\ (fps > 0 /\ frame_index > 1) =>
                (do_detect' <=> (now - last_emit) * fps >= TicksPerSec)
          /\ last_emit' = IF do_detect' THEN now ELSE last_emit
          /\ (~do_detect' /\ pc' # "except_status") =>
                /\ pc' = "draw"
                /\ UNCHANGED <<last_count, last_boxes, current_count, max_count, emitted>>]_vars

\* frame 2 came in the tick of frame 1 and was not analysed; frame 3 came a
\* tick later and was
C24_Witness ==
    /\ ~is_file /\ fps > 0 /\ pc = "pace" /\ frame_index = 3 /\ do_detect
    /\ {emitted[i].frame_index : i \in FrameEvents} = {1, 3}

\* the analysis pass of the current iteration has returned and the iteration
\* has not reached its frame event yet
AnalysisRan ==
    do_detect /\ pc \in {"set_current", "set_max", "draw", "snap_frame", "snap_id"}

\* what the worker does where an iteration emits its frame event, and what the
\* frame events emitted so far look like
EmitsIffAnalysed ==
    /\ (pc = "emit" /\ pc' # pc) =>
          emitted' = IF do_detect
                     THEN Append(emitted,
                                 [type |-> "frame", frame_index |-> frame_index,
                                  count |-> current_count, max_count |-> max_count,
                                  frames |-> 0, message |-> NoError,
                                  done |-> FALSE, video_url |-> FALSE])
                     ELSE emitted
    /\ (Len(emitted') > Len(emitted) /\ emitted'[Len(emitted')].type = "frame") =>
          pc = "emit" /\ do_detect /\ current_count = last_count
    /\ \A i \in FrameEvents :
          /\ emitted[i].max_count >= emitted[i].count
          /\ \A j \in FrameEvents : j < i => emitted[j].frame_index < emitted[i].frame_index

\* C25 (as claimed): in every iteration the frame event is emitted exactly
\* when the analysis pass ran, with the frame index, the count just returned
\* and max_count after the update.  Violated by an iteration whose analysis
\* ran and whose write to the output video then raises: the iteration is left
\* for the except branch and its frame event is never emitted.
C25_FrameEventIffAnalysed ==
    [][/\ EmitsIffAnalysed
       /\ (AnalysisRan /\ pc' # pc) => pc' # "except_status"]_vars

\* C25 (amended): in every iteration that is not ended by an exception the
\* frame event is emitted exactly when the analysis pass ran; it carries the
\* frame index, the count just returned and max_count after the update, so
\* max_count >= count in every frame event and the frame indices strictly
\* increase; an iteration ended by an exception emits no frame event.
C25_FrameEventIffAnalysedUnlessRaised ==
    [][/\ EmitsIffAnalysed
       /\ (AnalysisRan /\ pc' # pc) =>
             \/ pc' \in {"set_max", "draw", "snap_frame", "snap_id", "emit"}
             \/ pc' = "except_status" /\ emitted' = emitted
       /\ Raised => \A i \in 1..Len(emitted') :
                       i > Len(emitted) => emitted'[i].type # "frame"]_vars

\* frame 1 was analysed and announced; frame 2 was analysed, found a person,
\* and its write raised: the job has ended with one frame event only
C25_Witness ==
    /\ pc = "returned" /\ exc = ExcMessage("write") /\ do_detect
    /\ frames = 2 /\ max_count = 1
    /\ Cardinality(FrameEvents) = 1 /\ emitted[1].frame_index = 1
    /\ emitted[1].max_count = 0

\* the consumer yields a part
MjYields == parts' # parts

\* C26 (as claimed): the image bytes of a part are those of the snapshot whose
\* sequence number the consumer recorded for it, not of a newer one, and no
\* two parts carry the same snapshot.  Violated when the worker stores the
\* bytes of the next frame between the consumer's read of the sequence number
\* and its read of the bytes: the part carries the newer bytes under the older
\* number, and the next poll yields the same bytes again under the new number.
C26_PartsMatchSequence ==
    [][MjYields =>
          /\ last_frame_id = last_id /\ pc # "snap_id"
          /\ \A k \in 1..Len(parts) : parts[k].frame # last_frame]_vars

\* the parts that carry the snapshot the job holds now
FinalParts ==
    {k \in 1..Len(parts) : parts[k].id = last_frame_id /\ parts[k].frame = last_frame}

\* C27: once the status is done or error the snapshot and its sequence number
\* are final, and a consumer that was polling the job stops only then and,
\* if the job produced a snapshot, only after it has yielded a part with the
\* final sequence number and the final bytes.
C27_FinalSnapshotEmitted ==
    [][/\ (status \in {"done", "error"}) => UNCHANGED <<last_frame, last_frame_id>>
       /\ (mj_pc = "recheck" /\ mj_pc' = "closed") =>
             /\ status \in {"done", "error"}
             /\ last_frame_id >= 1 => FinalParts # {}]_vars

\* the job ended in error after its first snapshot; the consumer has yielded
\* that snapshot and stopped
C27_Witness ==
    /\ mj_pc = "closed" /\ status = "error" /\ last_frame_id = 1
    /\ Len(parts) = 1 /\ FinalParts = {1}

\* C28 (as claimed): a status response carries an error message exactly when
\* its status is error.
C28_ErrorIffStatusError ==
    resp.code = 200 => (resp.error # NoError <=> resp.status = "error")
\* ------------------------------------------------------- specifications
\* the job and its worker
Next == startup_event \/ process_video \/ process_stream \/ Worker \/ Tick

Spec == Init /\ [][Next]_vars

\* the job, its worker and the readers of its status
StatusRequests ==
    {req \in AllVideoRequests :
        /\ req.fps = MaxFps /\ req.max_seconds = 0 /\ req.source_fps = 0
        /\ req.has_size /\ req.length = MaxFrames}

process_video_status == \E req \in StatusRequests : SubmitVideo(req)

NextStatus == startup_event \/ process_video_status \/ Worker \/ get_job

SpecStatus == Init /\ [][NextStatus]_vars

\* the job, its worker, the broadcast coroutines and the websocket clients
PushRequests ==
    {req \in AllStreamRequests :
        /\ req.url[1] = "http" /\ req.fps = 0 /\ req.max_seconds = 0
        /\ req.length = MaxPushFrames}

process_stream_push == \E req \in PushRequests : SubmitStream(req)

NextPush == startup_event \/ process_stream_push \/ StreamWorker \/ Push

SpecPush == Init /\ [][NextPush]_vars

\* the job, its worker, the broadcast coroutines and one websocket client, for
\* a source of MaxFrames - 1 frames
OrderRequests ==
    {req \in AllStreamRequests :
        /\ req.url[1] = "http" /\ req.fps = 0 /\ req.max_seconds = 0
        /\ req.length = MaxFrames - 1}

process_stream_order == \E req \in OrderRequests : SubmitStream(req)

PushOne == PushOf({1})

NextOrder == startup_event \/ process_stream_order \/ StreamWorker \/ PushOne

SpecOrder == Init /\ [][NextOrder]_vars

\* files of every native rate and every sampling rate, with no frame size (no
\* writer), and the clock for the pacing
StrideRequests ==
    {req \in AllVideoRequests :
        /\ req.fps > 0 /\ req.max_seconds = 0 /\ ~req.has_size
        /\ req.length = MaxFrames}

process_video_stride == \E req \in StrideRequests : SubmitVideo(req)

NextStride == startup_event \/ process_video_stride \/ StreamWorker \/ Tick

SpecStride == Init /\ [][NextStride]_vars

\* the job, its worker and the MJPEG consumer
PullRequests ==
    {req \in AllVideoRequests :
        /\ req.fps = MaxFps /\ req.max_seconds = 0 /\ req.source_fps = MaxSourceFps
        /\ req.has_size /\ req.length = MaxFrames}

process_video_pull == \E req \in PullRequests : SubmitVideo(req)

NextPull == startup_event \/ process_video_pull \/ Worker \/ Tick \/ Pull

SpecPull == Init /\ [][NextPull]_vars

\* the job, its worker and the requests for the output video
NextVideo == startup_event \/ process_video_status \/ Worker \/ get_job_video

SpecVideo == Init /\ [][NextVideo]_vars

\* the registry alone: concurrent calls of create_job and calls of get_job
NextRegistry ==
    \/ \E c \in Callers : create_job(c)
    \/ \E id \in JobIds : lookup(id)

SpecRegistry == Init /\ [][NextRegistry]_vars

\* one call of _open_capture, for every source kind, every set of backend
\* constants the cv2 build defines and every outcome of every attempt
NextOpen == open_capture

SpecOpen == Init /\ [][NextOpen]_vars

\* files with and without a frame size and a stream, the worker and the
\* requests for the job status
WriterVideoRequests ==
    {req \in AllVideoRequests :
        /\ req.fps = MaxFps /\ req.max_seconds = 0 /\ req.source_fps = 0
        /\ req.length = MaxFrames}

WriterStreamRequests ==
    {req \in AllStreamRequests :
        /\ req.url[1] = "http" /\ req.fps = 0 /\ req.max_seconds = 0
        /\ req.length = MaxFrames}

process_video_writer == \E req \in WriterVideoRequests : SubmitVideo(req)

process_stream_writer == \E req \in WriterStreamRequests : SubmitStream(req)

NextWriter ==
    \/ startup_event \/ process_video_writer \/ process_stream_writer
    \/ Worker \/ get_job

SpecWriter == Init /\ [][NextWriter]_vars

\* live sources at every sampling rate, and the clock
LiveRequests ==
    {req \in AllStreamRequests :
        /\ req.url[1] = "http" /\ req.max_seconds = 0 /\ req.length = MaxFrames}

process_stream_live == \E req \in LiveRequests : SubmitStream(req)

NextLive == startup_event \/ process_stream_live \/ StreamWorker \/ Tick

SpecLive == Init /\ [][NextLive]_vars

\* the same, with a consumer that is always scheduled again: its thread sleeps
\* 0.1 s between two polls and nothing else blocks it
SpecPullFair == SpecPull /\ WF_vars(Pull)
====
